---- MODULE Spec2Model ----
(***************************************************************************)
(* mini-db: the MVCC transaction layer (src/storage/mvcc.rs) over the      *)
(* in-memory engine (src/storage/memory.rs), and the log-structured store  *)
(* (src/storage/bitcask.rs).                                               *)
(***************************************************************************)
EXTENDS Integers, Sequences, FiniteSets, TLC

\* ------------------------------------------------------------------ bounds
\* Number of transaction objects (read/write and read-only) ever begun.
MaxTxn == 3

\* User keys and user values of the transactional keyspace.
Keys == {1}
Vals == {1}

\* Stand-in for u64::MAX, the upper end of the conflict scan: the greatest
\* integer of the model, above every version it allocates.
VersionMax == 2147483647

\* Option<Vec<u8>> payloads of Version records: None is the tombstone.
None == <<>>
Some(v) == <<v>>
Payloads == {None} \cup {Some(v) : v \in Vals}
\* Ghost marker: the transaction has not written the key.
Unwritten == <<0>>

\* No target version given to begin_readonly.
NoTarget == 0

VARIABLES
    engine,     \* Memory: the BTreeMap, a function from encoded keys to values
    txns,       \* the Transaction objects, in begin order (with ghost fields)
    mutex,      \* the engine mutex: "free", "held", or "relocked" by its holder
    pending,    \* the versions read by the begin calls that hold the mutex
    last,       \* the last call and what it returned
    view,       \* ghost: the committed value of every key, in commit order
    files,      \* BitCask: the storage directory, file name -> records
    keydir,     \* BitCask: key -> <<file_id, crc_pos>>
    log,        \* BitCask: file_id of the active Log
    tsid,       \* the last identifier create_tsid() returned
    proc,       \* the store's process: "running" or "crashed" (panicked)
    blast,      \* the last store call and what it returned
    latest,     \* ghost: per key, the value of the last successful set/delete
    before,     \* ghost: per key, what get returned just before the last kill,
                \* compaction or rollover
    hazards,    \* ghost: the kinds of call made so far that the store mishandles
    nops,       \* number of set/delete calls made
    nreopen,    \* number of kills followed by init_db
    nmaint,     \* number of direct refresh_active and compact calls
    nflip,      \* number of bytes flipped on disk
    codec       \* key codec: the values given to it, the call and its results

mvccVars == <<engine, txns, mutex, pending, last, view>>
bcVars == <<files, keydir, log, tsid, proc, blast, latest, before, hazards,
            nops, nreopen, nmaint, nflip>>
codecVars == <<codec>>
vars == <<engine, txns, mutex, pending, last, view, files, keydir, log, tsid,
          proc, blast, latest, before, hazards, nops, nreopen, nmaint, nflip,
          codec>>

\* ------------------------------------------------------------ key space
\* enum Key: the variant index is the leading element, the fields follow in
\* declaration order.
KNextVersion == <<0>>
KActive(v) == <<1, v>>
KSnapshot(v) == <<2, v>>
KActiveWrite(v, k) == <<3, v, k>>
KVersion(k, v) == <<4, k, v>>

KUnversioned(k) == <<5, k>>

\* enum KeyPrefix
PActive == <<1>>
PActiveWrite(v) == <<3, v>>

\* Order of encoded keys: the codec is order-preserving, so byte order is the
\* lexicographic order of (variant index, fields).
RECURSIVE LessFrom(_, _, _)
LessFrom(a, b, i) ==
    IF i > Len(a) THEN i <= Len(b)
    ELSE IF i > Len(b) THEN FALSE
    ELSE IF a[i] # b[i] THEN a[i] < b[i]
    ELSE LessFrom(a, b, i + 1)

\* The variant index decides first; the fields follow.
KeyLess(a, b) == IF a[1] # b[1] THEN a[1] < b[1] ELSE LessFrom(a, b, 2)

KeyLeq(a, b) == ~KeyLess(b, a)

IsPrefix(p, k) == Len(p) <= Len(k) /\ \A j \in 1..Len(p) : p[j] = k[j]

\* ---------------------------------------------------------- Memory engine
EngineSet(e, k, v) == [x \in DOMAIN e \cup {k} |-> IF x = k THEN v ELSE e[x]]

EngineDelete(e, k) == [x \in DOMAIN e \ {k} |-> e[x]]

EngineHas(e, k) == k \in DOMAIN e

\* scan(from..=to): the keys of the range (BTreeMap::range)
Scan(e, from, to) == {k \in DOMAIN e : KeyLeq(from, k) /\ KeyLeq(k, to)}

\* scan_prefix(p) = scan([p, p+1))
ScanPrefix(e, p) == {k \in DOMAIN e : IsPrefix(p, k)}

\* The last (greatest) key of a non-empty scan.
\* The least key of the set: the scan read from its front (next) instead of
\* its back.
LastKey_first(ks) == CHOOSE k \in ks : \A o \in ks : KeyLeq(k, o)

LastKey(ks) == CHOOSE k \in ks : \A o \in ks : KeyLeq(o, k)

\* ------------------------------------------------------ TransactionState
\* is_visible with the read-only comparison applied to every transaction.
is_visible_strict(s, version) ==
    IF version \in s.active THEN FALSE ELSE version < s.version

is_visible(s, version) ==
    IF version \in s.active THEN FALSE
    ELSE IF s.readonly THEN version < s.version
    ELSE version <= s.version

\* Transaction::scan_active
scan_active(e) == {k[2] : k \in ScanPrefix(e, PActive)}

\* The stored NextVersion, 1 when absent (begin, begin_readonly).
NextVersionOf(e) == IF EngineHas(e, KNextVersion) THEN e[KNextVersion] ELSE 1

\* errdata!(msg): Error::InvalidData(msg)
errdata(msg) == [kind |-> "InvalidData", msg |-> msg]
NoErr == [kind |-> "", msg |-> ""]

\* ------------------------------------------------------ Transaction::begin
\* engine.lock(): the calling thread gets the mutex when no thread holds it.
Lockable_unguarded(m) == m # "relocked"

Lockable(m) == m = "free"

BeginVersion(e) == NextVersionOf(e)

BeginActive(e, version) == scan_active(EngineSet(e, KNextVersion, version + 1))

\* Variant of begin that stores the Snapshot record whether or not the
\* active set is empty.
BeginEngine_alwaysSnapshot(e, version) ==
    EngineSet(EngineSet(EngineSet(e, KNextVersion, version + 1),
                        KSnapshot(version),
                        scan_active(EngineSet(e, KNextVersion, version + 1))),
              KActive(version), <<>>)

BeginEngine(e, version) ==
    LET e1 == EngineSet(e, KNextVersion, version + 1)
        active == scan_active(e1)
        e2 == IF active # {} THEN EngineSet(e1, KSnapshot(version), active) ELSE e1
    IN EngineSet(e2, KActive(version), <<>>)

\* --------------------------------------------- Transaction::begin_readonly
ReadonlyVersion(e) ==
    LET next_version == NextVersionOf(e)
    IN IF next_version > 1 THEN next_version ELSE 1

ReadonlyFound(e, target) == target = NoTarget \/ EngineHas(e, KSnapshot(target))

ReadonlyActive(e, target) ==
    IF target = NoTarget THEN scan_active(e) ELSE e[KSnapshot(target)]

\* begin_readonly that marks its observation version active, as begin does.
ReadonlyEngine_marksActive(e, target) ==
    EngineSet(e, KActive(ReadonlyVersion(e)), <<>>)

\* The engine after begin_readonly: the session is only read (get,
\* scan_active), nothing is set or deleted.
ReadonlyEngine(e, target) == e

\* ------------------------------------------------------ Transaction::write
MinOf(S) == CHOOSE x \in S : \A y \in S : x <= y

WriteLower(s) == IF s.active # {} THEN MinOf(s.active) ELSE s.version + 1

WriteScan(s, e, key) ==
    Scan(e, KVersion(key, WriteLower(s)), KVersion(key, VersionMax))

\* scan(from..=to).last(): only the greatest record of the range is examined.
LastInvisible(s, ks) == ks # {} /\ ~is_visible(s, LastKey(ks)[3])

\* A write that skips the conflict check.
WriteConflict_none(s, e, key) == FALSE

WriteConflict(s, e, key) == LastInvisible(s, WriteScan(s, e, key))

WriteError(s, e, key) ==
    IF s.readonly THEN errdata("readonly transaction")
    ELSE IF WriteConflict(s, e, key) THEN errdata("write conflict")
    ELSE NoErr

\* A write that stores the Version record without its ActiveWrite marker.
WriteEngine_unmarked(s, e, key, payload) ==
    EngineSet(e, KVersion(key, s.version), payload)

WriteEngine(s, e, key, payload) ==
    EngineSet(EngineSet(e, KActiveWrite(s.version, key), <<>>),
              KVersion(key, s.version), payload)

\* -------------------------------------------------------- Transaction::get
GetVisible(s, e, key) ==
    {k \in Scan(e, KVersion(key, 0), KVersion(key, s.version)) : is_visible(s, k[3])}

\* The version of the record get returns, 0 when it finds none.
SourceOf(ks) == IF ks = {} THEN 0 ELSE LastKey(ks)[3]

GetSource(s, e, key) == SourceOf(GetVisible(s, e, key))

\* scan(from..=to).rev(): the first visible record, that is the greatest one.
ResultOf(e, ks) == IF ks = {} THEN None ELSE e[LastKey(ks)]

GetResult(s, e, key) == ResultOf(e, GetVisible(s, e, key))

\* ----------------------------------------------------- Transaction::commit
RECURSIVE DeleteAll(_, _)
DeleteAll(e, ks) ==
    IF ks = {} THEN e
    ELSE LET k == CHOOSE x \in ks : TRUE
         IN DeleteAll(EngineDelete(e, k), ks \ {k})

\* commit that removes the ActiveWrite records but leaves Active(version).
CommitEngine_keepActive(s, e) ==
    DeleteAll(e, ScanPrefix(e, PActiveWrite(s.version)))

CommitEngine(s, e) ==
    EngineDelete(DeleteAll(e, ScanPrefix(e, PActiveWrite(s.version))),
                 KActive(s.version))

\* ------------------------------------------------------------------ state
\* The TransactionState of a transaction object.
StateOf(t) == [version |-> t.version, readonly |-> t.readonly, active |-> t.active]

Txns == 1..Len(txns)
RW == {i \in Txns : ~txns[i].readonly}
RO == {i \in Txns : txns[i].readonly}
Committed == {i \in RW : txns[i].status = "committed"}

\* Ghost: the read/write transaction that holds a version.
WriterOf(v) == {i \in RW : txns[i].version = v}

NoLast ==
    [op |-> "none", txn |-> 0, key |-> 0, val |-> None, src |-> 0,
     target |-> NoTarget, dirty |-> FALSE, conflict |-> FALSE, err |-> NoErr]

InitMVCC ==
    /\ engine = <<>>
    /\ txns = <<>>
    /\ mutex = "free"
    /\ pending = <<>>
    /\ last = NoLast
    /\ view = [k \in Keys |-> None]

\* Removal of the i-th element of a sequence.
Remove(q, i) == [j \in 1..(Len(q) - 1) |-> IF j < i THEN q[j] ELSE q[j + 1]]

\* MVCC::begin, first half: take the engine mutex and read NextVersion.
BeginLock ==
    /\ Lockable(mutex)
    /\ Len(txns) + Len(pending) < MaxTxn
    /\ mutex' = "held"
    /\ pending' = Append(pending, BeginVersion(engine))
    /\ last' = [NoLast EXCEPT !.op = "lock"]
    /\ UNCHANGED <<engine, txns, view>>
    /\ UNCHANGED bcVars
    /\ UNCHANGED codecVars

\* MVCC::begin, second half: store NextVersion, the Snapshot and the Active
\* record, release the mutex and return the transaction object.
BeginFinish(i) ==
    /\ mutex = "held"
    /\ \E version \in {pending[i]} :
          /\ engine' = BeginEngine(engine, version)
          /\ txns' = Append(txns,
                [version |-> version, readonly |-> FALSE,
                 active |-> BeginActive(engine, version), status |-> "active",
                 target |-> NoTarget,
                 own |-> [k \in Keys |-> Unwritten], snap |-> view,
                 conc |-> {j \in RW : txns[j].status # "committed"},
                 after |-> {txns[j].version : j \in Committed},
                 rejected |-> {}])
    /\ pending' = Remove(pending, i)
    /\ mutex' = "free"
    /\ last' = [NoLast EXCEPT !.op = "begin", !.txn = Len(txns) + 1]
    /\ UNCHANGED view
    /\ UNCHANGED bcVars
    /\ UNCHANGED codecVars

\* MVCC::begin_readonly (target = NoTarget) and MVCC::begin_readonly_version
BeginReadonly(target) ==
    /\ Lockable(mutex)
    /\ Len(txns) + Len(pending) < MaxTxn
    /\ IF ReadonlyFound(engine, target)
       THEN /\ txns' = Append(txns,
                 [version |-> ReadonlyVersion(engine), readonly |-> TRUE,
                  active |-> ReadonlyActive(engine, target), status |-> "active",
                  target |-> target,
                  own |-> [k \in Keys |-> Unwritten],
                  snap |-> IF target = NoTarget THEN view
                           ELSE txns[CHOOSE i \in WriterOf(target) : TRUE].snap,
                  conc |-> {},
                  after |-> {txns[i].version : i \in Committed},
                  rejected |-> {}])
            /\ last' = [NoLast EXCEPT !.op = "begin_readonly", !.txn = Len(txns) + 1,
                                      !.target = target]
       ELSE /\ txns' = txns
            /\ last' = [NoLast EXCEPT !.op = "begin_readonly", !.target = target,
                                      !.err = errdata("snapshot not found")]
    /\ engine' = ReadonlyEngine(engine, target)
    /\ UNCHANGED <<mutex, pending, view>>
    /\ UNCHANGED bcVars
    /\ UNCHANGED codecVars

\* Transaction::set(key, Some(value)), set(key, None) and delete(key)
Write(t, key, payload) ==
    /\ txns[t].readonly \/ Lockable(mutex)
    /\ txns[t].status # "committed"
    /\ \E s \in {StateOf(txns[t])} : \E err \in {WriteError(s, engine, key)} :
          /\ engine' = IF err = NoErr THEN WriteEngine(s, engine, key, payload)
                       ELSE engine
          /\ txns' = [txns EXCEPT
                ![t].own[key] = IF err = NoErr THEN payload ELSE @,
                ![t].rejected = IF err = NoErr \/ s.readonly THEN @
                                ELSE @ \cup {<<key, err.kind>>}]
          /\ last' = [NoLast EXCEPT !.op = "write", !.txn = t, !.key = key,
                         !.val = payload, !.err = err,
                         !.conflict = (~s.readonly) /\
                            \E k \in WriteScan(s, engine, key) : ~is_visible(s, k[3])]
    /\ UNCHANGED <<mutex, pending, view>>
    /\ UNCHANGED bcVars
    /\ UNCHANGED codecVars

\* Transaction::get
Get(t, key) ==
    /\ Lockable(mutex)
    /\ txns[t].status # "committed"
    /\ \E s \in {StateOf(txns[t])} : \E src \in {GetSource(s, engine, key)} :
          last' = [NoLast EXCEPT !.op = "get", !.txn = t, !.key = key,
                      !.val = GetResult(s, engine, key), !.src = src,
                      !.dirty = \E w \in WriterOf(src) :
                                    w # t /\ txns[w].status # "committed"]
    /\ UNCHANGED <<engine, txns, mutex, pending, view>>
    /\ UNCHANGED bcVars
    /\ UNCHANGED codecVars

\* Transaction::commit
Commit(t) ==
    /\ txns[t].readonly \/ Lockable(mutex)
    /\ txns[t].status = "active"
    /\ engine' = IF txns[t].readonly THEN engine
                 ELSE CommitEngine(StateOf(txns[t]), engine)
    /\ txns' = [txns EXCEPT ![t].status = "committed"]
    /\ view' = IF txns[t].readonly THEN view
               ELSE [k \in Keys |-> IF txns[t].own[k] = Unwritten THEN view[k]
                                    ELSE txns[t].own[k]]
    /\ last' = [NoLast EXCEPT !.op = "commit", !.txn = t]
    /\ UNCHANGED <<mutex, pending>>
    /\ UNCHANGED bcVars
    /\ UNCHANGED codecVars

\* Variant of resume that never looks for the Active record.
ResumeResult_unchecked(e, s) == [val |-> Some(s), err |-> NoErr]

\* Transaction::resume: a read/write state needs its Active record; the
\* state is returned as supplied.
ResumeResult(e, s) ==
    IF ~s.readonly /\ ~EngineHas(e, KActive(s.version))
    THEN [val |-> None, err |-> errdata("no active key")]
    ELSE [val |-> Some(s), err |-> NoErr]

\* The transaction states handed to resume.
ResumeStates ==
    [version : 1..MaxTxn, readonly : BOOLEAN, active : {{}, {1}}]

\* MVCC::resume; the engine is locked only for a read/write state.
Resume(s) ==
    /\ s.readonly \/ Lockable(mutex)
    /\ last' = [NoLast EXCEPT !.op = "resume", !.key = s,
                              !.val = ResumeResult(engine, s).val,
                              !.err = ResumeResult(engine, s).err]
    /\ UNCHANGED <<engine, txns, mutex, pending, view>>
    /\ UNCHANGED bcVars
    /\ UNCHANGED codecVars

\* Transaction::rollback.  A read-only transaction returns Ok at once.  A
\* read/write transaction takes the engine mutex and then calls self.delete,
\* that is Transaction::write, which locks the same mutex again on the same
\* thread: std::sync::Mutex leaves that unspecified but the second lock never
\* returns (it deadlocks, or panics and poisons the mutex).  Either way nothing
\* is deleted and no later call gets the engine: "relocked" stands for both.
Rollback(t) ==
    /\ txns[t].readonly \/ Lockable(mutex)
    /\ txns[t].status = "active"
    /\ IF txns[t].readonly
       THEN /\ txns' = [txns EXCEPT ![t].status = "rolledback"]
            /\ mutex' = mutex
       ELSE /\ txns' = [txns EXCEPT ![t].status = "rollback"]
            /\ mutex' = "relocked"
    /\ last' = [NoLast EXCEPT !.op = "rollback", !.txn = t]
    /\ UNCHANGED <<engine, pending, view>>
    /\ UNCHANGED bcVars
    /\ UNCHANGED codecVars

\* The byte strings passed to get_unversioned and set_unversioned: the
\* encoding of Key::Unversioned(k), and a byte string that is the encoding of
\* Key::Version(k, 1).
RawKeys == {KUnversioned(k) : k \in Keys} \cup {KVersion(k, 1) : k \in Keys}

\* Engine::get
EngineGet(e, k) == IF EngineHas(e, k) THEN Some(e[k]) ELSE None

\* MVCC::set_unversioned: self.engine.lock()?.set(key, value)
SetUnversioned(key, value) ==
    /\ Lockable(mutex)
    /\ engine' = EngineSet(engine, key, value)
    /\ last' = [NoLast EXCEPT !.op = "set_unversioned", !.key = key]
    /\ UNCHANGED <<txns, mutex, pending, view>>
    /\ UNCHANGED bcVars
    /\ UNCHANGED codecVars

\* MVCC::get_unversioned: self.engine.lock()?.get(key)
GetUnversioned(key) ==
    /\ Lockable(mutex)
    /\ last' = [NoLast EXCEPT !.op = "get_unversioned", !.key = key,
                              !.val = EngineGet(engine, key)]
    /\ UNCHANGED <<engine, txns, mutex, pending, view>>
    /\ UNCHANGED bcVars
    /\ UNCHANGED codecVars

\* ----------------------------------------------------------------------
\* BitCask, the log-structured store (src/storage/bitcask.rs)
\* ----------------------------------------------------------------------
\* Number of calls that write (set, delete, refresh_active, compact), and of
\* kills followed by init_db.
MaxOps == 3
MaxReopen == 1
\* Number of direct calls of refresh_active and compact among them, and of
\* bytes flipped on disk.
MaxMaint == 1
MaxFlip == 1

\* get_max_size(): single_file_limit * 1024 * 1024 bytes, scaled down to the
\* size of one record with a one-byte key and a one-byte value.
MaxSize == 22

\* Keys and values are byte strings.  The values: the empty one, two ASCII
\* bytes and one byte that is not valid UTF-8.
BKeys == {<<1>>, <<2>>}
BVals == {<<>>, <<97>>, <<98>>, <<255>>}

\* U+FFFD REPLACEMENT CHARACTER in UTF-8.
Replacement == <<239, 191, 189>>

\* String::from_utf8_lossy(v), then the bytes of the String: ASCII bytes stay,
\* an already encoded U+FFFD stays, a lone byte >= 0x80 becomes U+FFFD.
from_utf8_lossy(v) ==
    IF \A i \in 1..Len(v) : v[i] < 128 THEN v
    ELSE IF v = Replacement THEN v
    ELSE Replacement

\* File names: <identifier> or <identifier>_active.
FileName(id, suffix) == <<id, suffix>>
ActiveName(id) == FileName(id, "_active")
strip_suffix(fid) == FileName(fid[1], "")

\* get_timestamp_to_vec(): time is not modelled, every record is written at
\* time 0.
Tstamp == 0

\* The check value of a record: Sha3_256 over tstamp, ksz, value_sz, key and
\* value, taken as injective, so it stands for exactly the bytes hashed.
Crc(tstamp, key, value_sz, value) == <<tstamp, Len(key), value_sz, key, value>>

\* LogEntry::new and build_crc: an empty value is stored as value_sz = -1.
LogEntry(key, value) ==
    LET value_sz == IF Len(value) = 0 THEN -1 ELSE Len(value)
    IN [crc |-> Crc(Tstamp, key, value_sz, value), tstamp |-> Tstamp, key |-> key,
        value_sz |-> value_sz, value |-> value]

\* Log::check_crc on a record read back
check_crc(r) == r.crc = Crc(r.tstamp, r.key, r.value_sz, r.value)

\* get_entry().len(): crc 8, tstamp 4, ksz 4, value_sz 4, key, value.
EntryLen(r) == 20 + Len(r.key) + Len(r.value)

RECURSIVE OffsetOf(_, _)
\* The byte offset of the i-th record of a file (i = Len + 1: the file's end).
OffsetOf(f, i) == IF i = 1 THEN 0 ELSE OffsetOf(f, i - 1) + EntryLen(f[i - 1])

FileLen(f) == OffsetOf(f, Len(f) + 1)

\* Log::new: open the file, creating it when it does not exist.
LogNew(fs, fid) ==
    IF fid \in DOMAIN fs THEN fs
    ELSE [x \in DOMAIN fs \cup {fid} |-> IF x = fid THEN <<>> ELSE fs[x]]

RemoveFile(fs, fid) == [x \in DOMAIN fs \ {fid} |-> fs[x]]

\* Log::write_entry: append at the end of the file.
WriteEntry(fs, fid, r) == [fs EXCEPT ![fid] = Append(@, r)]

KeydirInsert(kd, key, loc) ==
    [x \in DOMAIN kd \cup {key} |-> IF x = key THEN loc ELSE kd[x]]
KeydirRemove(kd, key) == [x \in DOMAIN kd \ {key} |-> kd[x]]

\* Results of the store's calls.
Ok(v) == [kind |-> "ok", val |-> v]
ErrIO == [kind |-> "io", val |-> None]
Panic == [kind |-> "panic", val |-> None]

\* What parsing the bytes at an offset that is not the start of a record can
\* end in: a failed read, a failed CRC check (Ok(None)) or a panic.
Misreads == {ErrIO, Ok(None), Panic}

\* Log::read_entry at crc_pos.  Past the end of the file read_exact fails.  At
\* the start of a record the record is parsed: value_sz is read as u32, so a
\* tombstone's -1 overflows the entry length (a panic, by the overflow check
\* or by the slice bounds of from_bytes); a record that fails check_crc gives
\* Ok(None).  Anywhere else: a misread.
\* The record of a file that starts at byte crc_pos.
EntryAt(f, crc_pos) == f[CHOOSE i \in 1..Len(f) : OffsetOf(f, i) = crc_pos]

ParseEntry(r) ==
    IF r.value_sz <= 0 THEN Panic
    ELSE IF check_crc(r) THEN Ok(Some(r.value))
    ELSE Ok(None)

ReadEntry(f, crc_pos, g) ==
    IF crc_pos >= FileLen(f) THEN ErrIO
    ELSE IF \E i \in 1..Len(f) : OffsetOf(f, i) = crc_pos
    THEN ParseEntry(EntryAt(f, crc_pos))
    ELSE g

\* BitCask::get on what read_entry returned: the value through
\* String::from_utf8_lossy, anything else passed on.
LossyValue(e) ==
    IF e.kind = "ok" /\ e.val # None THEN Ok(Some(from_utf8_lossy(e.val[1]))) ELSE e

\* BitCask::get on the log get_log_by_key opened.
GetFrom(fs1, fid, crc_pos, g) ==
    [files |-> fs1, res |-> LossyValue(ReadEntry(fs1[fid], crc_pos, g))]

\* BitCask::get_log_by_key followed by BitCask::get: the files after the call
\* (a Log is opened, so created, for a file_id other than the active one) and
\* the result.
BitCaskGet(fs, kd, lg, key, g) ==
    IF key \notin DOMAIN kd THEN [files |-> fs, res |-> Ok(None)]
    ELSE GetFrom(IF kd[key][1] = lg THEN fs ELSE LogNew(fs, kd[key][1]),
                 kd[key][1], kd[key][2], g)

\* The least key of a set in the BTreeMap's (byte-wise) order.
MinKey(ks) == CHOOSE k \in ks : \A o \in ks : o = k \/ LessFrom(k, o, 1)

RECURSIVE CompactCopy(_, _, _, _, _)
\* The loop of BitCask::compact over the keys of the key directory: get the
\* value (through the key directory, which still names the old files) and
\* write it to the new active log; an Err is propagated, None.unwrap() panics.
CompactPut(got, kd, new, key, ks, g) ==
    IF got.res.kind # "ok" THEN got
    ELSE IF got.res.val = None THEN [files |-> got.files, res |-> Panic]
    ELSE CompactCopy(WriteEntry(got.files, new, LogEntry(key, got.res.val[1])),
                     kd, new, ks \ {key}, g)

CompactKey(fs, kd, new, key, ks, g) ==
    CompactPut(BitCaskGet(fs, kd, new, key, g), kd, new, key, ks, g)

CompactCopy(fs, kd, new, ks, g) ==
    IF ks = {} THEN [files |-> fs, res |-> Ok(None)]
    ELSE CompactKey(fs, kd, new, MinKey(ks), ks, g)

\* BitCask::compact: a new active log, the copies, then the old active file
\* is removed.  The key directory is left as it is.
CompactRemove(copied, lg, new, ts) ==
    [files |-> IF copied.res.kind = "ok" THEN RemoveFile(copied.files, lg)
               ELSE copied.files,
     log |-> new, tsid |-> ts, res |-> copied.res]

Compact(fs, kd, lg, ts, g) ==
    CompactRemove(CompactCopy(LogNew(fs, ActiveName(ts + 1)), kd,
                              ActiveName(ts + 1), DOMAIN kd, g),
                  lg, ActiveName(ts + 1), ts + 1)

\* BitCask::refresh_active: the active file loses its suffix and a new active
\* log is created.
RefreshActive(fs, lg, ts) ==
    LET renamed == [x \in (DOMAIN fs \ {lg}) \cup {strip_suffix(lg)} |->
                       IF x = strip_suffix(lg) THEN fs[lg] ELSE fs[x]]
    IN [files |-> LogNew(renamed, ActiveName(ts + 1)),
        log |-> ActiveName(ts + 1), tsid |-> ts + 1, res |-> Ok(None)]

\* BitCask::check_size_limit
check_size_limit(f) == FileLen(f) >= MaxSize

\* The write of BitCask::set and the update of the key directory after it.
SetWrite(fs, kd, lg, ts, fid, key, value) ==
    [files |-> WriteEntry(fs, fid, LogEntry(key, value)),
     keydir |-> KeydirInsert(kd, key, <<fid, FileLen(fs[fid])>>),
     log |-> lg, tsid |-> ts, res |-> Ok(None)]

\* The branch of BitCask::set for a key the key directory does not hold:
\* need_compact and need_refresh are the same test on the file_id taken at
\* entry, so after a compaction no refresh follows.
SetToActive(r, kd, key, value) ==
    SetWrite(r.files, kd, r.log, r.tsid, r.log, key, value)

SetAfterCompact(c, kd, lg, key, value) ==
    IF c.res.kind # "ok"
    THEN [files |-> c.files, keydir |-> kd, log |-> c.log, tsid |-> c.tsid,
          res |-> c.res]
    ELSE SetToActive(IF c.log = lg /\ check_size_limit(c.files[c.log])
                     THEN RefreshActive(c.files, c.log, c.tsid) ELSE c,
                     kd, key, value)

SetNew(fs, kd, lg, ts, key, value, g) ==
    SetAfterCompact(IF check_size_limit(fs[lg]) THEN Compact(fs, kd, lg, ts, g)
                    ELSE [files |-> fs, log |-> lg, tsid |-> ts, res |-> Ok(None)],
                    kd, lg, key, value)

\* BitCask::set: a key the key directory holds is written to the log its
\* entry names (opened, so created, when it is not the active one).
BitCaskSet(fs, kd, lg, ts, key, value, g) ==
    IF key \in DOMAIN kd
    THEN SetWrite(IF kd[key][1] = lg THEN fs ELSE LogNew(fs, kd[key][1]),
                  kd, lg, ts, kd[key][1], key, value)
    ELSE SetNew(fs, kd, lg, ts, key, value, g)

\* The keys of a set that lie in the range lo..=hi, in byte order.
InRange(ks, lo, hi) ==
    {k \in ks : ~LessFrom(k, lo, 1) /\ ~LessFrom(hi, k, 1)}

RECURSIVE ScanFrom(_, _, _, _, _, _)
\* The closure of BitCask::scan on one key: self.get(key).unwrap() and
\* value.unwrap() panic on an Err and on None.
ScanPut(got, kd, lg, key, ks, acc, g) ==
    IF got.res.kind # "ok" \/ got.res.val = None
    THEN [files |-> got.files, res |-> Panic]
    ELSE ScanFrom(got.files, kd, lg, ks \ {key},
                  Append(acc, <<key, got.res.val[1]>>), g)

ScanKey(fs, kd, lg, key, ks, acc, g) ==
    ScanPut(BitCaskGet(fs, kd, lg, key, g), kd, lg, key, ks, acc, g)

\* BitCask::scan over the keys of keydir.range(range), in ascending order.
ScanFrom(fs, kd, lg, ks, acc, g) ==
    IF ks = {} THEN [files |-> fs, res |-> Ok(acc)]
    ELSE ScanKey(fs, kd, lg, MinKey(ks), ks, acc, g)

\* BitCask::scan(lo..=hi)
BitCaskScan(fs, kd, lg, lo, hi, g) ==
    ScanFrom(fs, kd, lg, InRange(DOMAIN kd, lo, hi), <<>>, g)

RECURSIVE TotalSize(_, _)
\* BitCask::status, total_disk_size: the lengths of the files of the directory.
TotalSize(fs, fids) ==
    IF fids = {} THEN 0
    ELSE FileLen(fs[CHOOSE x \in fids : TRUE])
           + TotalSize(fs, fids \ {CHOOSE x \in fids : TRUE})

\* BitCask::status, logical_size: get_log_by_key opens, so creates, the file
\* of every key of the key directory; the sum itself is not modelled.
OpenAll(fs, kd) ==
    [x \in DOMAIN fs \cup {kd[k][1] : k \in DOMAIN kd} |->
        IF x \in DOMAIN fs THEN fs[x] ELSE <<>>]

\* BitCask::status, live_disk_size: read_entry(..).unwrap().unwrap() of one
\* key succeeds.
LiveRead(fs, kd, k, g) ==
    /\ ReadEntry(fs[kd[k][1]], kd[k][2], g).kind = "ok"
    /\ ReadEntry(fs[kd[k][1]], kd[k][2], g).val # None

RECURSIVE LiveSize(_, _, _)
\* BitCask::status, live_disk_size: the lengths of the records the keys point at.
LiveSize(fs, kd, ks) ==
    IF ks = {} THEN 0
    ELSE EntryLen(EntryAt(fs[kd[MinKey(ks)][1]], kd[MinKey(ks)][2]))
           + LiveSize(fs, kd, ks \ {MinKey(ks)})

\* The EngineStatus of the sizes.
EngineStatus(count, total, live) ==
    [total_count |-> count, total_size |-> total, live_size |-> live,
     garbage_size |-> total - live]

\* BitCask::status once the logs are opened: the live size is computed only
\* when the directory is not empty.
StatusOn(fs1, kd, g) ==
    [files |-> fs1,
     res |-> IF TotalSize(fs1, DOMAIN fs1) = 0
             THEN Ok(Some(EngineStatus(Cardinality(DOMAIN kd), 0, 0)))
             ELSE IF \E k \in DOMAIN kd : ~LiveRead(fs1, kd, k, g) THEN Panic
             ELSE Ok(Some(EngineStatus(Cardinality(DOMAIN kd),
                                       TotalSize(fs1, DOMAIN fs1),
                                       LiveSize(fs1, kd, DOMAIN kd))))]

\* BitCask::status
Status(fs, kd, g) == StatusOn(OpenAll(fs, kd), kd, g)

RECURSIVE ReplayFile(_, _, _, _)
\* BitCask::build_key_dir: the records of one file from the i-th on.
ReplayFile(kd, fid, f, i) ==
    IF i > Len(f) THEN kd
    ELSE ReplayFile(IF f[i].value_sz > 0
                    THEN KeydirInsert(kd, f[i].key, <<fid, OffsetOf(f, i)>>)
                    ELSE KeydirRemove(kd, f[i].key),
                    fid, f, i + 1)

\* The first of a set of file names when sorted by identifier.  The sort is
\* stable over the order read_dir gives, which is unspecified: of two names
\* with the same identifier the one with suffix tie comes first.
FirstFile(fids, tie) ==
    CHOOSE x \in fids :
        \A y \in fids : x[1] < y[1] \/ (x[1] = y[1] /\ (x = y \/ x[2] = tie))
LastFile(fids) == CHOOSE x \in fids : \A y \in fids : y[1] <= x[1]

\* The suffixes a file name has.
Suffixes == {"", "_active"}

RECURSIVE ReplayAll(_, _, _, _)
\* init_db: every file of the directory, in ascending identifier order.
ReplayAll(kd, fs, fids, tie) ==
    IF fids = {} THEN kd
    ELSE LET fid == FirstFile(fids, tie)
         IN ReplayAll(ReplayFile(kd, fid, fs[fid], 1), fs, fids \ {fid}, tie)

\* init_db: the active log is the last file in that order whose name ends in
\* "active", a new one when there is none.
InitLog(fs, ts) ==
    LET actives == {x \in DOMAIN fs : x[2] = "_active"}
    IN IF actives = {} THEN ActiveName(ts) ELSE LastFile(actives)

\* What get returns for every key in the current state.
GetAll(fs, kd, lg) ==
    [k \in BKeys |-> {BitCaskGet(fs, kd, lg, k, g).res : g \in Misreads}]

\* Ghost: nothing recorded; before is kept for the one state after the kill,
\* compaction or rollover it belongs to.
NoBefore == [k \in BKeys |-> {}]

NoBLast == [op |-> "none", key |-> <<>>, res |-> Ok(None)]

InitBitCask ==
    /\ files = [x \in {ActiveName(1)} |-> <<>>]
    /\ keydir = <<>>
    /\ log = ActiveName(1)
    /\ tsid = 1
    /\ proc = "running"
    /\ blast = NoBLast
    /\ latest = [k \in BKeys |-> None]
    /\ before = NoBefore
    /\ hazards = {}
    /\ nops = 0
    /\ nreopen = 0
    /\ nmaint = 0
    /\ nflip = 0

\* The ghost record of the calls the store mishandles.
HazardsOf(fs, kd, lg, key, value) ==
    (IF key \notin DOMAIN kd /\ check_size_limit(fs[lg]) THEN {"compact"} ELSE {})
    \cup (IF value # from_utf8_lossy(value) THEN {"binary"} ELSE {})

\* Engine::set of BitCask
BSet(key, value) ==
    /\ proc = "running"
    /\ nops < MaxOps
    /\ \E g \in Misreads :
         \E r \in {BitCaskSet(files, keydir, log, tsid, key, value, g)} :
            /\ files' = r.files
            /\ keydir' = r.keydir
            /\ log' = r.log
            /\ tsid' = r.tsid
            /\ proc' = IF r.res = Panic THEN "crashed" ELSE "running"
            /\ blast' = [op |-> "set", key |-> key, res |-> r.res]
            /\ latest' = IF r.res.kind = "ok"
                         THEN [latest EXCEPT ![key] = Some(value)] ELSE latest
    /\ hazards' = hazards \cup HazardsOf(files, keydir, log, key, value)
                          \cup (IF value = <<>> THEN {"empty"} ELSE {})
    /\ nops' = nops + 1
    /\ before' = NoBefore
    /\ UNCHANGED <<nreopen, nmaint, nflip>>
    /\ UNCHANGED mvccVars
    /\ UNCHANGED codecVars

\* Engine::delete of BitCask: set(key, []), flush, keydir.remove(key)
BDelete(key) ==
    /\ proc = "running"
    /\ nops < MaxOps
    /\ \E g \in Misreads :
         \E r \in {BitCaskSet(files, keydir, log, tsid, key, <<>>, g)} :
            /\ files' = r.files
            /\ keydir' = IF r.res.kind = "ok" THEN KeydirRemove(r.keydir, key)
                         ELSE r.keydir
            /\ log' = r.log
            /\ tsid' = r.tsid
            /\ proc' = IF r.res = Panic THEN "crashed" ELSE "running"
            /\ blast' = [op |-> "delete", key |-> key, res |-> r.res]
            /\ latest' = IF r.res.kind = "ok"
                         THEN [latest EXCEPT ![key] = None] ELSE latest
    /\ hazards' = hazards \cup HazardsOf(files, keydir, log, key, <<>>)
    /\ nops' = nops + 1
    /\ before' = NoBefore
    /\ UNCHANGED <<nreopen, nmaint, nflip>>
    /\ UNCHANGED mvccVars
    /\ UNCHANGED codecVars

\* Engine::get of BitCask
BGet(key) ==
    /\ proc = "running"
    /\ \E g \in Misreads :
         \E r \in {BitCaskGet(files, keydir, log, key, g)} :
            /\ files' = r.files
            /\ proc' = IF r.res = Panic THEN "crashed" ELSE "running"
            /\ blast' = [op |-> "get", key |-> key, res |-> r.res]
    /\ before' = NoBefore
    /\ UNCHANGED <<keydir, log, tsid, latest, hazards, nops, nreopen, nmaint, nflip>>
    /\ UNCHANGED mvccVars
    /\ UNCHANGED codecVars

\* Engine::flush, a kill of the process, and BitCask::init_db on the same
\* directory.  write_entry flushes its BufWriter on every write, so every
\* record written is in its file; flush finds nothing left to write.  After a
\* panic the process is already gone and init_db alone runs ("restart").
Reopen ==
    /\ nreopen < MaxReopen
    /\ \E tie \in Suffixes : keydir' = ReplayAll(<<>>, files, DOMAIN files, tie)
    /\ log' = InitLog(files, tsid + 1)
    /\ files' = LogNew(files, InitLog(files, tsid + 1))
    /\ tsid' = tsid + 1
    /\ proc' = "running"
    /\ blast' = [NoBLast EXCEPT !.op = IF proc = "running" THEN "reopen"
                                       ELSE "restart"]
    /\ before' = GetAll(files, keydir, log)
    /\ nreopen' = nreopen + 1
    /\ UNCHANGED <<latest, hazards, nops, nmaint, nflip>>
    /\ UNCHANGED mvccVars
    /\ UNCHANGED codecVars

\* BitCask::refresh_active called on the store, as test_refresh_active does
BRefresh ==
    /\ proc = "running"
    /\ nmaint < MaxMaint
    /\ nops < MaxOps
    /\ \E r \in {RefreshActive(files, log, tsid)} :
          /\ files' = r.files
          /\ log' = r.log
          /\ tsid' = r.tsid
          /\ blast' = [op |-> "refresh", key |-> <<>>, res |-> r.res]
    /\ before' = GetAll(files, keydir, log)
    /\ hazards' = hazards \cup {"rollover"}
    /\ nmaint' = nmaint + 1
    /\ nops' = nops + 1
    /\ UNCHANGED <<keydir, proc, latest, nreopen, nflip>>
    /\ UNCHANGED mvccVars
    /\ UNCHANGED codecVars

\* BitCask::compact called on the store, as test_compact does
BCompact ==
    /\ proc = "running"
    /\ nmaint < MaxMaint
    /\ nops < MaxOps
    /\ \E g \in Misreads :
         \E c \in {Compact(files, keydir, log, tsid, g)} :
            /\ files' = c.files
            /\ log' = c.log
            /\ tsid' = c.tsid
            /\ proc' = IF c.res = Panic THEN "crashed" ELSE "running"
            /\ blast' = [op |-> "compact", key |-> <<>>, res |-> c.res]
    /\ before' = GetAll(files, keydir, log)
    /\ hazards' = hazards \cup {"compact"}
    /\ nmaint' = nmaint + 1
    /\ nops' = nops + 1
    /\ UNCHANGED <<keydir, latest, nreopen, nflip>>
    /\ UNCHANGED mvccVars
    /\ UNCHANGED codecVars

\* Engine::scan of BitCask on the range lo..=hi, lo <= hi (BTreeMap::range
\* panics on a range that starts after its end).
BScan(lo, hi) ==
    /\ proc = "running"
    /\ ~LessFrom(hi, lo, 1)
    /\ \E g \in Misreads :
         \E r \in {BitCaskScan(files, keydir, log, lo, hi, g)} :
            /\ files' = r.files
            /\ proc' = IF r.res = Panic THEN "crashed" ELSE "running"
            /\ blast' = [op |-> "scan", key |-> <<lo, hi>>, res |-> r.res]
    /\ before' = NoBefore
    /\ UNCHANGED <<keydir, log, tsid, latest, hazards, nops, nreopen, nmaint, nflip>>
    /\ UNCHANGED mvccVars
    /\ UNCHANGED codecVars

\* Engine::status of BitCask
BStatus ==
    /\ proc = "running"
    /\ \E g \in Misreads :
         \E r \in {Status(files, keydir, g)} :
            /\ files' = r.files
            /\ proc' = IF r.res = Panic THEN "crashed" ELSE "running"
            /\ blast' = [op |-> "status", key |-> <<>>, res |-> r.res]
    /\ before' = NoBefore
    /\ UNCHANGED <<keydir, log, tsid, latest, hazards, nops, nreopen, nmaint, nflip>>
    /\ UNCHANGED mvccVars
    /\ UNCHANGED codecVars

\* The files a store holds locked: the file of self.log, locked by Log::new
\* and open as long as the Log lives.  build_key_dir and the Logs that
\* get_log_by_key opens for other files lock their file too, and drop it, and
\* so the lock, before the call returns.
Held(lg, pr) == IF pr = "running" THEN {lg} ELSE {}

\* BitCask::init_db by another process on the same directory: build_key_dir
\* fails on the first file whose try_lock_exclusive fails, and init_db panics
\* on that Err; Log::new(..).unwrap() of the active file panics likewise.
InitDbAgainst(fs, held, ts) ==
    IF \E fid \in DOMAIN fs : fid \in held THEN Panic
    ELSE IF InitLog(fs, ts) \in held THEN Panic
    ELSE Ok(None)

\* A second process calls BitCask::init_db while the store is running.
BOpenSecond ==
    /\ proc = "running"
    /\ blast' = [op |-> "open", key |-> <<>>,
                 res |-> InitDbAgainst(files, Held(log, proc), tsid + 1)]
    /\ files' = IF InitDbAgainst(files, Held(log, proc), tsid + 1) = Panic THEN files
                ELSE LogNew(files, InitLog(files, tsid + 1))
    /\ before' = NoBefore
    /\ UNCHANGED <<keydir, log, tsid, proc, latest, hazards, nops, nreopen, nmaint,
                   nflip>>
    /\ UNCHANGED mvccVars
    /\ UNCHANGED codecVars

\* The first j keys of the key directory in the order compact visits them.
CompactFirst(kd, j) ==
    {k \in DOMAIN kd : Cardinality({o \in DOMAIN kd : LessFrom(o, k, 1)}) < j}

\* BitCask::compact up to the point where j keys are copied: the new active
\* log exists and holds j records, the old active file is not yet removed.
CompactKilled(fs, kd, ts, j, g) ==
    CompactCopy(LogNew(fs, ActiveName(ts + 1)), kd, ActiveName(ts + 1),
                CompactFirst(kd, j), g)

\* The process is killed inside BitCask::compact after j copies.
BCompactKill(j) ==
    /\ proc = "running"
    /\ nmaint < MaxMaint
    /\ nops < MaxOps
    /\ j <= Cardinality(DOMAIN keydir)
    /\ \E g \in Misreads :
         \E c \in {CompactKilled(files, keydir, tsid, j, g)} :
            /\ c.res.kind = "ok"
            /\ files' = c.files
    /\ log' = ActiveName(tsid + 1)
    /\ tsid' = tsid + 1
    /\ proc' = "crashed"
    /\ blast' = [op |-> "compact_kill", key |-> <<>>, res |-> Ok(None)]
    /\ before' = GetAll(files, keydir, log)
    /\ nmaint' = nmaint + 1
    /\ nops' = nops + 1
    /\ UNCHANGED <<keydir, latest, hazards, nreopen, nflip>>
    /\ UNCHANGED mvccVars
    /\ UNCHANGED codecVars

\* read_exact of n bytes at offset from of a record of which only the first
\* t bytes are in the file.
ReadExact(t, from, n) == from + n <= t

\* The closure of build_key_dir on such a record: ksz, the key, value_sz are
\* read in this order; the value is not read.
TornRead(r, t) ==
    /\ ReadExact(t, 12, 4)
    /\ ReadExact(t, 20, Len(r.key))
    /\ ReadExact(t, 16, 4)

\* The byte counts at which a partially written record can end, taken at
\* the boundaries of its fields.
CutPoints(r) ==
    {1, 15, 16, 19, 20, 20 + Len(r.key), EntryLen(r) - 1} \cap 1..(EntryLen(r) - 1)

\* Hung == the loop of build_key_dir never ends.
Hung == [kind |-> "hang", val |-> None]

\* build_key_dir on the last file when it ends in the first t bytes of the
\* record r, kd being the key directory after the complete records.  On Err
\* the loop prints and goes round again without moving pos; on Ok the key is
\* inserted or removed and pos passes the end of the file.
ReplayTorn(kd, fid, off, r, t) ==
    IF ~TornRead(r, t) THEN [keydir |-> kd, res |-> Hung]
    ELSE [keydir |-> IF r.value_sz > 0 THEN KeydirInsert(kd, r.key, <<fid, off>>)
                     ELSE KeydirRemove(kd, r.key),
          res |-> Ok(None)]

\* The process is killed while set(key, value) appends its record to the
\* active file, t bytes of it being written, and init_db opens the directory.
BOpenTorn(key, value, t) ==
    /\ proc = "running"
    /\ nops < MaxOps
    /\ nreopen < MaxReopen
    /\ IF key \in DOMAIN keydir THEN keydir[key][1] = log
       ELSE ~check_size_limit(files[log])
    /\ t \in CutPoints(LogEntry(key, value))
    /\ \E tie \in Suffixes :
         \E r \in {ReplayTorn(ReplayAll(<<>>, files, DOMAIN files, tie), log,
                              FileLen(files[log]), LogEntry(key, value), t)} :
            /\ keydir' = r.keydir
            /\ proc' = IF r.res = Hung THEN "hung" ELSE "stopped"
            /\ blast' = [op |-> "open_torn", key |-> <<key, value, t>>, res |-> r.res]
    /\ before' = NoBefore
    /\ nops' = nops + 1
    /\ nreopen' = nreopen + 1
    /\ UNCHANGED <<files, log, tsid, latest, hazards, nmaint, nflip>>
    /\ UNCHANGED mvccVars
    /\ UNCHANGED codecVars

\* The low bit of a byte flipped.
FlipBit(b) == IF b % 2 = 0 THEN b + 1 ELSE b - 1

\* A record with one byte of its timestamp, key or value flipped; the stored
\* crc bytes stay as written.
FlipRecord(r, field) ==
    IF field = "tstamp" THEN [r EXCEPT !.tstamp = FlipBit(@)]
    ELSE IF field = "key" THEN [r EXCEPT !.key[1] = FlipBit(@)]
    ELSE [r EXCEPT !.value[1] = FlipBit(@)]

FlipFields(r) == {"tstamp", "key"} \cup (IF Len(r.value) > 0 THEN {"value"} ELSE {})

\* The disk flips one byte in the post-CRC region of the i-th record of a
\* file, a record that a key of the key directory points at.
Flip(fid, i, field) ==
    /\ nflip < MaxFlip
    /\ fid \in DOMAIN files
    /\ i \in 1..Len(files[fid])
    /\ \E k \in DOMAIN keydir : keydir[k] = <<fid, OffsetOf(files[fid], i)>>
    /\ field \in FlipFields(files[fid][i])
    /\ files' = [files EXCEPT ![fid][i] = FlipRecord(@, field)]
    /\ blast' = [NoBLast EXCEPT !.op = "flip"]
    /\ hazards' = hazards \cup {"flip"}
    /\ nflip' = nflip + 1
    /\ before' = NoBefore
    /\ UNCHANGED <<keydir, log, tsid, proc, latest, nops, nreopen, nmaint>>
    /\ UNCHANGED mvccVars
    /\ UNCHANGED codecVars

NextBitCask ==
    \/ \E key \in BKeys, value \in BVals : BSet(key, value)
    \/ \E key \in BKeys : BDelete(key)
    \/ \E key \in BKeys : BGet(key)
    \/ \E lo, hi \in BKeys : BScan(lo, hi)
    \/ Reopen

\* The store with refresh_active and compact called directly.
NextBitCaskMaint ==
    \/ NextBitCask
    \/ BRefresh
    \/ BCompact
    \/ BStatus
    \/ BOpenSecond

\* The store on a disk that flips bytes.
NextBitCaskFlip ==
    \/ NextBitCask
    \/ \E fid \in DOMAIN files, i \in 1..MaxOps, field \in {"tstamp", "key", "value"} :
          Flip(fid, i, field)

\* The store with a process that can be killed inside a compaction.
NextBitCaskKill ==
    \/ NextBitCask
    \/ \E j \in 0..Cardinality(BKeys) : BCompactKill(j)

\* The length of the longest record of the keys and values of the model.
MaxRecord == 20 + 1 + 1

\* The store with a process that can be killed inside a write.
NextBitCaskTorn ==
    \/ NextBitCask
    \/ \E key \in BKeys, value \in BVals, t \in 1..MaxRecord : BOpenTorn(key, value, t)

\* The store called with the zero-length key as well.
NextBitCaskEmptyKey ==
    \/ NextBitCask
    \/ \E value \in BVals : BSet(<<>>, value)
    \/ BDelete(<<>>)

\* ----------------------------------------------------------------------
\* The order-preserving key codec (src/utils/key_coder.rs)
\* ----------------------------------------------------------------------
\* Greatest length of the byte strings given to the codec.
MaxLen == 2

\* The types serde hands to the codec: bool, the integers, byte strings,
\* tuples, and enums whose variants are unit, newtype or tuple variants.
TBool == [k |-> "bool", name |-> "bool", of |-> <<>>]
TInt(name) == [k |-> "int", name |-> name, of |-> <<>>]
TBytes == [k |-> "bytes", name |-> "bytes", of |-> <<>>]
TTuple(tys) == [k |-> "tuple", name |-> "tuple", of |-> tys]
TEnum(variants) == [k |-> "enum", name |-> "enum", of |-> variants]
Variant(kind, tys) == [k |-> kind, name |-> kind, of |-> tys]

Signed == {"i8", "i16", "i32", "i64"}
Unsigned == {"u8", "u16", "u32", "u64"}
Width(name) ==
    IF name \in {"i8", "u8"} THEN 1
    ELSE IF name \in {"i16", "u16"} THEN 2
    ELSE IF name \in {"i32", "u32"} THEN 4
    ELSE 8

\* enum Key of mvcc.rs, variant i of the sequence having index i - 1:
\* NextVersion, Active(u64), Snapshot(u64), ActiveWrite(u64, bytes),
\* Version(bytes, u64), Unversioned(bytes).
KeyEnum ==
    TEnum(<<Variant("unit", <<>>),
            Variant("newtype", <<TInt("u64")>>),
            Variant("newtype", <<TInt("u64")>>),
            Variant("tuple_variant", <<TInt("u64"), TBytes>>),
            Variant("tuple_variant", <<TBytes, TInt("u64")>>),
            Variant("newtype", <<TBytes>>)>>)

RECURSIVE BeBytes(_, _)
\* The w low bytes of n >= 0, most significant first.
BeBytes(n, w) == IF w = 0 THEN <<>> ELSE Append(BeBytes(n \div 256, w - 1), n % 256)

\* to_be_bytes of an integer type: two's complement for a negative value.
to_be_bytes(name, n) ==
    IF n >= 0 THEN BeBytes(n, Width(name))
    ELSE [i \in 1..Width(name) |-> 255 - BeBytes(-n - 1, Width(name))[i]]

\* bytes[0] ^= 1 << 7
convert_first_bit(bytes) == [bytes EXCEPT ![1] = (@ + 128) % 256]

RECURSIVE Escape(_)
\* serialize_bytes: 0x00 becomes 0x00 0xff.
Escape(v) ==
    IF v = <<>> THEN <<>>
    ELSE (IF Head(v) = 0 THEN <<0, 255>> ELSE <<Head(v)>>) \o Escape(Tail(v))

\* A byte string framed without escaping its 0x00 bytes.
serialize_bytes_raw(v) == v \o <<0, 0>>

\* serialize_bytes: the escaped bytes and the terminator 0x00 0x00.
serialize_bytes(v) == Escape(v) \o <<0, 0>>

\* The output buffer after two serializations in a row; a panic of either
\* ends the call.
Concat(r1, r2) ==
    IF r1 = Panic \/ r2 = Panic THEN Panic ELSE Ok(r1.val \o r2.val)

RECURSIVE EncodeVal(_, _)
RECURSIVE EncodeSeq(_, _, _)
\* SerializeTuple::serialize_element on each element in turn.
EncodeSeq(tys, xs, i) ==
    IF i > Len(tys) THEN Ok(<<>>)
    ELSE Concat(EncodeVal(tys[i], xs[i]), EncodeSeq(tys, xs, i + 1))

\* serialize_unit_variant, serialize_newtype_variant, serialize_tuple_variant:
\* the variant index as one byte, then the payload.  serialize_field of
\* SerializeTupleVariant is unimplemented!().
EncodeVariant(v, idx, fields) ==
    IF v.k = "unit" THEN Ok(<<idx>>)
    ELSE IF v.k = "newtype" THEN Concat(Ok(<<idx>>), EncodeVal(v.of[1], fields[1]))
    ELSE IF Len(v.of) = 0 THEN Ok(<<idx>>)
    ELSE Panic

\* impl Serializer for &mut KeyEncoder.  A value of an enum is <<variant
\* index, fields>>, of a tuple the sequence of its elements.
EncodeVal(ty, x) ==
    IF ty.k = "bool" THEN Ok(<<IF x THEN 1 ELSE 0>>)
    ELSE IF ty.k = "int"
    THEN Ok(IF ty.name \in Signed THEN convert_first_bit(to_be_bytes(ty.name, x))
            ELSE to_be_bytes(ty.name, x))
    ELSE IF ty.k = "bytes" THEN Ok(serialize_bytes(x))
    ELSE IF ty.k = "tuple" THEN EncodeSeq(ty.of, x, 1)
    ELSE EncodeVariant(ty.of[x[1] + 1], x[1], x[2])

RECURSIVE ValueLess(_, _, _)
RECURSIVE SeqLess(_, _, _, _)
\* The order of tuples: the first differing element decides.
SeqLess(tys, a, b, i) ==
    IF i > Len(tys) THEN FALSE
    ELSE IF a[i] # b[i] THEN ValueLess(tys[i], a[i], b[i])
    ELSE SeqLess(tys, a, b, i + 1)

\* a < b for two values of one type: false < true, the integers by value,
\* byte strings lexicographically, enums by variant index and then payload.
ValueLess(ty, a, b) ==
    IF ty.k = "bool" THEN a = FALSE /\ b = TRUE
    ELSE IF ty.k = "int" THEN a < b
    ELSE IF ty.k = "bytes" THEN LessFrom(a, b, 1)
    ELSE IF ty.k = "tuple" THEN SeqLess(ty.of, a, b, 1)
    ELSE IF a[1] # b[1] THEN a[1] < b[1]
    ELSE SeqLess(ty.of[a[1] + 1].of, a[2], b[2], 1)

\* The values given to the codec.
SampleBytes == {0, 1, 255}
ByteStrings == UNION {[1..n -> SampleBytes] : n \in 0..MaxLen}
ShortStrings == UNION {[1..n -> SampleBytes] : n \in 0..1}
IntSamples(name) ==
    IF name = "i8" THEN {-128, -1, 0, 1, 127}
    ELSE IF name = "i16" THEN {-32768, -256, -1, 0, 1, 255, 256, 32767}
    ELSE IF name \in Signed THEN {-2147483647, -65536, -1, 0, 1, 256, 2147483647}
    ELSE IF name = "u8" THEN {0, 1, 255}
    ELSE IF name = "u16" THEN {0, 1, 255, 256, 65535}
    ELSE {0, 1, 255, 256, 65536, 2147483647}
KeySamples ==
    {<<0, <<>>>>}
        \cup {<<1, <<v>>>> : v \in {1, 256}}
        \cup {<<2, <<v>>>> : v \in {1, 256}}
        \cup {<<3, <<v, k>>>> : v \in {1, 256}, k \in ShortStrings}
        \cup {<<4, <<k, v>>>> : k \in ShortStrings, v \in {1, 256}}
        \cup {<<5, <<k>>>> : k \in ShortStrings}

Pairs(ty, xs) == {[ty |-> ty, va |-> a, vb |-> b] : a \in xs, b \in xs}

CodecInputs ==
    Pairs(TBool, BOOLEAN)
        \cup UNION {Pairs(TInt(name), IntSamples(name)) : name \in Signed \cup Unsigned}
        \cup Pairs(TBytes, ByteStrings)
        \cup Pairs(TTuple(<<TBytes, TBytes>>), ShortStrings \X ShortStrings)
        \cup Pairs(KeyEnum, KeySamples)

NoInput == [ty |-> TBool, va |-> FALSE, vb |-> FALSE]
NoCodec ==
    [in |-> NoInput, op |-> "none", ea |-> Panic, eb |-> Panic,
     da |-> [kind |-> "panic", val |-> None, rest |-> <<>>]]

\* Two values of one type are encoded.
Encode ==
    /\ codec.op = "given"
    /\ codec' = [codec EXCEPT !.op = "encode",
                              !.ea = EncodeVal(codec.in.ty, codec.in.va),
                              !.eb = EncodeVal(codec.in.ty, codec.in.vb)]
    /\ UNCHANGED mvccVars
    /\ UNCHANGED bcVars

\* What a deserialization ends in: the value and the input left, an Err, or
\* a panic.
Decoded(v, rest) == [kind |-> "ok", val |-> v, rest |-> rest]
DecodeErr(e) == [kind |-> e, val |-> None, rest |-> <<>>]
DecodePanic == DecodeErr("panic")

RECURSIVE FromBe(_, _)
\* The unsigned value of big-endian bytes, acc being the value so far.
FromBe(bytes, acc) ==
    IF bytes = <<>> THEN acc ELSE FromBe(Tail(bytes), acc * 256 + Head(bytes))

\* i64::from_be_bytes: two's complement.
from_be_bytes(bytes) ==
    IF bytes[1] < 128 THEN FromBe(bytes, 0)
    ELSE -FromBe([i \in 1..Len(bytes) |-> 255 - bytes[i]], 0) - 1

RECURSIVE decode_next_bytes(_, _, _)
\* KeyDecoder::decode_next_bytes from position i of the input, result being
\* the bytes decoded so far.
decode_next_bytes(input, i, result) ==
    IF i > Len(input) THEN DecodeErr("InvalidData")
    ELSE IF input[i] # 0 THEN decode_next_bytes(input, i + 1, Append(result, input[i]))
    ELSE IF i + 1 > Len(input) THEN DecodeErr("InvalidData")
    ELSE IF input[i + 1] = 0 THEN Decoded(result, SubSeq(input, i + 2, Len(input)))
    ELSE IF input[i + 1] = 255 THEN decode_next_bytes(input, i + 2, Append(result, 0))
    ELSE DecodeErr("InvalidData")

\* deserialize_bool: one byte, 0x00 or 0x01.
deserialize_bool(input) ==
    IF Len(input) < 1 THEN DecodePanic
    ELSE IF input[1] = 0 THEN Decoded(FALSE, Tail(input))
    ELSE IF input[1] = 1 THEN Decoded(TRUE, Tail(input))
    ELSE DecodePanic

\* deserialize_i8 .. deserialize_i64 all take 8 bytes (take_bytes panics on
\* a shorter input), flip the first bit and convert the 8 bytes to the
\* array of the type, which fails for every type but i64.  deserialize_u8 ..
\* deserialize_u64 are unimplemented!().
deserialize_int(name, input) ==
    IF name \in Unsigned THEN DecodePanic
    ELSE IF Len(input) < 8 THEN DecodePanic
    ELSE IF Width(name) # 8 THEN DecodeErr("TryFromIntError")
    ELSE Decoded(from_be_bytes(convert_first_bit(SubSeq(input, 1, 8))),
                 SubSeq(input, 9, Len(input)))

RECURSIVE DecodeVal(_, _)
RECURSIVE DecodeSeq(_, _, _, _)
\* SeqAccess::next_element_seed: an element that fails ends the call.
DecodeSeqStep(tys, i, acc, r) ==
    IF r.kind # "ok" THEN r ELSE DecodeSeq(tys, r.rest, i + 1, Append(acc, r.val))

\* visit_seq for a tuple of the types tys.
DecodeSeq(tys, input, i, acc) ==
    IF i > Len(tys) THEN Decoded(acc, input)
    ELSE DecodeSeqStep(tys, i, acc, DecodeVal(tys[i], input))

\* VariantAccess: unit_variant, newtype_variant_seed, tuple_variant.
DecodeFields(v, input) ==
    IF v.k = "unit" THEN Decoded(<<>>, input)
    ELSE DecodeSeq(v.of, input, 1, <<>>)

WithIndex(idx, r) == IF r.kind # "ok" THEN r ELSE Decoded(<<idx, r.val>>, r.rest)

\* EnumAccess::variant_seed: one byte is the variant index.
DecodeEnum(variants, input) ==
    IF Len(input) < 1 THEN DecodePanic
    ELSE IF input[1] + 1 > Len(variants) THEN DecodeErr("InvalidData")
    ELSE WithIndex(input[1], DecodeFields(variants[input[1] + 1], Tail(input)))

\* impl Deserializer for &mut KeyDecoder.
DecodeVal(ty, input) ==
    IF ty.k = "bool" THEN deserialize_bool(input)
    ELSE IF ty.k = "int" THEN deserialize_int(ty.name, input)
    ELSE IF ty.k = "bytes" THEN decode_next_bytes(input, 1, <<>>)
    ELSE IF ty.k = "tuple" THEN DecodeSeq(ty.of, input, 1, <<>>)
    ELSE DecodeEnum(ty.of, input)

\* Decoding what the encoder produced; there is nothing to decode when the
\* encoder panicked.
DecodeEncoded(ty, e) == IF e.kind # "ok" THEN DecodePanic ELSE DecodeVal(ty, e.val)

\* A value is encoded and the bytes are decoded as a value of its type.
RoundTrip ==
    /\ codec.op = "given"
    /\ codec' = [codec EXCEPT !.op = "round_trip",
                              !.ea = EncodeVal(codec.in.ty, codec.in.va),
                              !.da = DecodeEncoded(codec.in.ty,
                                                   EncodeVal(codec.in.ty, codec.in.va))]
    /\ UNCHANGED mvccVars
    /\ UNCHANGED bcVars

InitCodec == codec \in {[NoCodec EXCEPT !.in = i, !.op = "given"] : i \in CodecInputs}

NextCodec ==
    \/ Encode
    \/ RoundTrip

\* ------------------------------------------------ Scans of the MVCC keyspace
\* enum KeyPrefix: the leading fields of the Key variant of the same index.
KeyPrefixEnum ==
    TEnum(<<Variant("unit", <<>>),
            Variant("unit", <<>>),
            Variant("unit", <<>>),
            Variant("newtype", <<TInt("u64")>>),
            Variant("newtype", <<TBytes>>),
            Variant("unit", <<>>)>>)

\* Key::encode and KeyPrefix::encode: the variant index as one byte, then
\* each field in declaration order, a tuple variant's fields like a tuple's.
KeyBytes(ty, x) == <<x[1]>> \o EncodeSeq(ty.of[x[1] + 1].of, x[2], 1).val

\* scan(lo..=hi) keeps the encoded keys from lo to hi in byte order.
Between(lo, hi, s) == ~LessFrom(s, lo, 1) /\ ~LessFrom(hi, s, 1)

\* The versions and the records given to a scan.
VersionSamples == {1, 2, 256}
ScanKeys ==
    {<<0, <<>>>>}
        \cup {<<1, <<v>>>> : v \in VersionSamples}
        \cup {<<2, <<v>>>> : v \in VersionSamples}
        \cup {<<3, <<v, k>>>> : v \in VersionSamples, k \in ByteStrings}
        \cup {<<4, <<k, v>>>> : k \in ByteStrings, v \in VersionSamples}
        \cup {<<5, <<k>>>> : k \in ByteStrings}

\* The outcome of a scan for one record: whether the scan yields it.
Scanned(op, hit) ==
    [codec EXCEPT !.op = op,
                  !.ea = Ok(KeyBytes(KeyEnum, codec.in.va)),
                  !.eb = Ok(KeyBytes(KeyEnum, codec.in.vb)),
                  !.da = [kind |-> "scan", val |-> hit, rest |-> <<>>]]

\* scan(Version(k, 0)..=Version(k, V)) for the k and V of the first record,
\* met with the second record.
ScanVersions ==
    /\ codec.op = "given"
    /\ codec.in.va[1] = 4
    /\ codec' = Scanned("scan_versions",
                        Between(KeyBytes(KeyEnum, <<4, <<codec.in.va[2][1], 0>>>>),
                                KeyBytes(KeyEnum, codec.in.va),
                                KeyBytes(KeyEnum, codec.in.vb)))
    /\ UNCHANGED mvccVars
    /\ UNCHANGED bcVars

\* scan_prefix(KeyPrefix::ActiveWrite(V)) for the V of the first record.
ScanActiveWrite ==
    /\ codec.op = "given"
    /\ codec.in.va[1] = 3
    /\ codec' = Scanned("scan_active_write",
                        IsPrefix(KeyBytes(KeyPrefixEnum, <<3, <<codec.in.va[2][1]>>>>),
                                 KeyBytes(KeyEnum, codec.in.vb)))
    /\ UNCHANGED mvccVars
    /\ UNCHANGED bcVars

\* scan_prefix(KeyPrefix::Active).
ScanActive ==
    /\ codec.op = "given"
    /\ codec.in.va[1] = 1
    /\ codec' = Scanned("scan_active",
                        IsPrefix(KeyBytes(KeyPrefixEnum, <<1, <<>>>>),
                                 KeyBytes(KeyEnum, codec.in.vb)))
    /\ UNCHANGED mvccVars
    /\ UNCHANGED bcVars

InitScan ==
    /\ InitMVCC
    /\ InitBitCask
    /\ codec \in {[NoCodec EXCEPT !.in = i, !.op = "given"] : i \in Pairs(KeyEnum, ScanKeys)}

NextScan ==
    \/ ScanVersions
    \/ ScanActiveWrite
    \/ ScanActive

SpecScan == InitScan /\ [][NextScan]_vars

Init == InitMVCC /\ InitBitCask /\ codec = NoCodec

\* The codec is given its values; the stores are as constructed.
InitGiven == InitMVCC /\ InitBitCask /\ InitCodec

SpecCodec == InitGiven /\ [][NextCodec]_vars

Next ==
    \/ BeginLock
    \/ \E i \in 1..Len(pending) : BeginFinish(i)
    \/ \E target \in {NoTarget} \cup (1..MaxTxn) : BeginReadonly(target)
    \/ \E t \in Txns, key \in Keys, payload \in Payloads : Write(t, key, payload)
    \/ \E t \in Txns, key \in Keys : Get(t, key)
    \/ \E t \in Txns : Commit(t)
    \/ \E t \in Txns : Rollback(t)

\* The transactions together with the unversioned accessors.
NextUnversioned ==
    \/ Next
    \/ \E key \in RawKeys, value \in Payloads : SetUnversioned(key, value)
    \/ \E key \in RawKeys : GetUnversioned(key)

Spec == Init /\ [][Next]_vars

SpecUnversioned == Init /\ [][NextUnversioned]_vars

\* The transactions together with set_unversioned called with the byte
\* string that encodes Key::NextVersion and the encoding of version 1.
NextUnversionedNext ==
    \/ Next
    \/ SetUnversioned(KNextVersion, 1)

SpecUnversionedNext == Init /\ [][NextUnversionedNext]_vars

\* The transactions with resume.
NextResume ==
    \/ Next
    \/ \E s \in ResumeStates : Resume(s)

SpecResume == Init /\ [][NextResume]_vars

\* ------------------------------------------- The MVCC store over BitCask
\* The bytes given to Engine::set as the value of a record: vec![] for the
\* Active and ActiveWrite markers, a bincode encoding (never empty) for the
\* NextVersion, Snapshot, Version and Unversioned records.
StoredBytes(k) == IF k[1] \in {1, 3} THEN <<>> ELSE <<1>>

\* The records build_key_dir indexes when the directory is opened again: a
\* record whose value_sz is not positive removes its key.
Reopened(e) ==
    [k \in {x \in DOMAIN e : LogEntry(x, StoredBytes(x)).value_sz > 0} |-> e[k]]

\* The store is closed or killed and the directory opened again: the
\* transaction objects in flight are gone, the engine is what the replay
\* of the log finds.
Restart ==
    /\ pending = <<>>
    /\ engine' = Reopened(engine)
    /\ txns' = [t \in DOMAIN txns |->
                   IF txns[t].status \in {"active", "rollback"}
                   THEN [txns[t] EXCEPT !.status = "killed"] ELSE txns[t]]
    /\ mutex' = "free"
    /\ last' = [NoLast EXCEPT !.op = "restart"]
    /\ UNCHANGED <<pending, view>>
    /\ UNCHANGED bcVars
    /\ UNCHANGED codecVars

NextRestart ==
    \/ Next
    \/ Restart

SpecRestart == Init /\ [][NextRestart]_vars


SpecBitCask == Init /\ [][NextBitCask]_vars

SpecBitCaskMaint == Init /\ [][NextBitCaskMaint]_vars

SpecBitCaskFlip == Init /\ [][NextBitCaskFlip]_vars

SpecBitCaskKill == Init /\ [][NextBitCaskKill]_vars

SpecBitCaskTorn == Init /\ [][NextBitCaskTorn]_vars

SpecBitCaskEmptyKey == Init /\ [][NextBitCaskEmptyKey]_vars

\* ------------------------------------------------------------ properties
HasActive(v) == EngineHas(engine, KActive(v))
HasActiveWrite(v) == ScanPrefix(engine, PActiveWrite(v)) # {}
HasVersion(k, v) == EngineHas(engine, KVersion(k, v))

\* C1: no get of any transaction returns a value (or a delete) written by a
\* read/write transaction that has not committed.
C1_NoDirtyReads == last.op = "get" => ~last.dirty

\* C2: every get(k) of a read-only transaction returns the committed value of
\* k as of the point the transaction observes (the view a read/write
\* transaction beginning there sees), whatever happens concurrently, so
\* repeated gets agree.
C2_SnapshotIsolation ==
    (last.op = "get" /\ txns[last.txn].readonly)
        => last.val = txns[last.txn].snap[last.key]

\* C3: when two concurrent read/write transactions both attempt to write the
\* same key, they do not both write it, and one of them receives the
\* Serialization error for it.
Attempted(i, k) ==
    txns[i].own[k] # Unwritten \/ \E kind \in {"InvalidData", "Serialization"} :
                                      <<k, kind>> \in txns[i].rejected

C3_ConflictFreedom ==
    \A j \in RW : \A i \in txns[j].conc : \A k \in Keys :
        (Attempted(i, k) /\ Attempted(j, k))
            => /\ ~(txns[i].own[k] # Unwritten /\ txns[j].own[k] # Unwritten)
               /\ <<k, "Serialization">> \in txns[i].rejected \cup txns[j].rejected

\* The part of C3 that does not depend on the error kind: two concurrent
\* read/write transactions never both write the same key.
ConflictExclusion ==
    \A j \in RW : \A i \in txns[j].conc : \A k \in Keys :
        ~(txns[i].own[k] # Unwritten /\ txns[j].own[k] # Unwritten)

\* C4: a get(k) of a read/write transaction that has written k returns its own
\* last write: the value of the last set, None after a delete.
C4_ReadYourWrites ==
    (last.op = "get" /\ ~txns[last.txn].readonly
        /\ txns[last.txn].own[last.key] # Unwritten)
        => last.val = txns[last.txn].own[last.key]

\* A read/write transaction reads back its own delete of a key that another
\* transaction has committed a value for.
C4_Witness ==
    /\ last.op = "get"
    /\ ~txns[last.txn].readonly
    /\ txns[last.txn].own[last.key] = None
    /\ view[last.key] # None

\* C7: after rollback of a read/write transaction with version V no Active(V),
\* no ActiveWrite(V, k) and no Version(k, V) record remains.
C7_RollbackCleanliness ==
    \A t \in RW : txns[t].status = "rollback"
        => /\ ~HasActive(txns[t].version)
           /\ ~HasActiveWrite(txns[t].version)
           /\ \A k \in Keys : ~HasVersion(k, txns[t].version)

\* C9: the n-th read/write transaction begun gets version n (the first gets 1,
\* no two get the same, versions increase in begin order) and the stored
\* NextVersion is the last version allocated plus one.
C9_VersionAllocation ==
    /\ \A i \in RW : txns[i].version = Cardinality({j \in RW : j <= i})
    /\ RW # {} => (EngineHas(engine, KNextVersion)
                   /\ engine[KNextVersion] = Cardinality(RW) + 1)

C9_Witness ==
    /\ Cardinality(RW) >= 2
    /\ \E r \in RO : \E i, j \in RW : i < r /\ r < j

\* C10: a write of a read/write transaction fails with the Serialization error
\* when some record Version(k, v), v >= lower, is not visible to it, and
\* succeeds otherwise.
C10_WriteConflictRule ==
    (last.op = "write" /\ ~txns[last.txn].readonly)
        => IF last.conflict THEN last.err.kind = "Serialization"
           ELSE last.err = NoErr

\* The part of C10 that does not depend on the error kind.
ConflictRule ==
    (last.op = "write" /\ ~txns[last.txn].readonly)
        => (last.conflict <=> last.err # NoErr)

\* C1 and C2 for the transactions that are not opened at an earlier version.
PlainNoDirtyReads ==
    (last.op = "get" /\ txns[last.txn].target = NoTarget) => ~last.dirty

PlainSnapshotIsolation ==
    (last.op = "get" /\ txns[last.txn].readonly
        /\ txns[last.txn].target = NoTarget)
        => last.val = txns[last.txn].snap[last.key]

\* The records of a committed read/write transaction: its Active and
\* ActiveWrite records are gone and each Version record it wrote is present.
CommittedRecords ==
    \A t \in Committed :
        /\ ~HasActive(txns[t].version)
        /\ ~HasActiveWrite(txns[t].version)
        /\ \A k \in Keys : txns[t].own[k] # Unwritten
               => (HasVersion(k, txns[t].version)
                   /\ engine[KVersion(k, txns[t].version)] = txns[t].own[k])

\* Transaction j, begun after version v committed, does not hold v in its
\* active set and sees v's writes unless a later visible version hides them.
SeesCommitted(j, v) ==
    /\ v \notin txns[j].active
    /\ is_visible(StateOf(txns[j]), v)
    /\ \A w \in WriterOf(v) :
          (last.op = "get" /\ last.txn = j
              /\ txns[w].own[last.key] # Unwritten
              /\ ~\E v2 \in (v + 1)..MaxTxn :
                     HasVersion(last.key, v2) /\ is_visible(StateOf(txns[j]), v2))
              => last.val = txns[w].own[last.key]

C5_GetReturnsLatest ==
    blast.op = "get" => blast.res = Ok(latest[blast.key])

\* C5 for the runs without a compaction, an empty value or a value that is
\* not UTF-8.
PlainGetReturnsLatest ==
    (blast.op = "get" /\ hazards = {}) => blast.res = Ok(latest[blast.key])

\* C6: after flush, kill and reopen, get(k) is for every key what it was
\* before the kill.
C6_Durability ==
    blast.op = "reopen" => before = GetAll(files, keydir, log)

\* C6 for the runs without a compaction or an empty value.
PlainDurability ==
    (blast.op = "reopen" /\ hazards \subseteq {"binary"})
        => before = GetAll(files, keydir, log)

\* The read-only transactions opened at an earlier version.
TimeTravel == {j \in RO : txns[j].target # NoTarget}

\* C11: begin_readonly_version(t) yields a read-only transaction whose version
\* is t and whose active set is the one stored under Snapshot(t), every get of
\* it returns what the read/write transaction with version t saw when it began,
\* and the call fails when Snapshot(t) is absent.
C11_TimeTravel ==
    /\ \A j \in TimeTravel :
          /\ txns[j].version = txns[j].target
          /\ EngineHas(engine, KSnapshot(txns[j].target))
          /\ txns[j].active = engine[KSnapshot(txns[j].target)]
    /\ (last.op = "get" /\ last.txn \in TimeTravel)
          => last.val = txns[last.txn].snap[last.key]
    /\ (last.op = "begin_readonly" /\ last.target # NoTarget
           /\ ~EngineHas(engine, KSnapshot(last.target)))
          => last.err # NoErr

\* The part of C11 about the active set and the missing Snapshot.
TimeTravelActive ==
    /\ \A j \in TimeTravel :
          /\ EngineHas(engine, KSnapshot(txns[j].target))
          /\ txns[j].active = engine[KSnapshot(txns[j].target)]
    /\ (last.op = "begin_readonly" /\ last.target # NoTarget)
          => (last.err # NoErr <=> ~EngineHas(engine, KSnapshot(last.target)))

\* C12: a time-travel read at the version of a writer that began while no
\* other transaction was in flight succeeds, and its gets return the state
\* just before that writer.
C12_TimeTravelAtQuietWriter ==
    /\ (last.op = "begin_readonly"
           /\ \E w \in WriterOf(last.target) : txns[w].active = {})
          => last.err = NoErr
    /\ (last.op = "get" /\ last.txn \in TimeTravel
           /\ \E w \in WriterOf(txns[last.txn].target) : txns[w].active = {})
          => last.val = txns[last.txn].snap[last.key]

\* C13: a set or delete on a read-only transaction fails with the ReadOnly
\* error.
C13_ReadOnlyWriteError ==
    (last.op = "write" /\ txns[last.txn].readonly) => last.err.kind = "ReadOnly"

\* The part of C13 that does not depend on the error kind: the write fails.
ReadOnlyWriteFails ==
    (last.op = "write" /\ txns[last.txn].readonly) => last.err # NoErr

\* The calls of read-only transactions: begin_readonly with or without a
\* version, and set, delete, get, commit and rollback on a read-only one.
ReadOnlyCall(l, ts) ==
    \/ l.op = "begin_readonly"
    \/ l.op \in {"write", "get", "commit", "rollback"} /\ ts[l.txn].readonly

\* C14: no call of a read-only transaction changes any engine record; none
\* allocates a version or writes an Active or Snapshot record.
C14_ReadOnlyFrame ==
    [][ReadOnlyCall(last', txns') => engine' = engine]_vars

\* A read-only transaction opened at an earlier version has read and ended
\* while the engine holds records.
C14_Witness ==
    /\ last.op \in {"commit", "rollback"}
    /\ last.txn \in TimeTravel
    /\ \E k \in Keys, v \in 1..MaxTxn : HasVersion(k, v)

\* The versions of key k visible to transaction j by the rule of C15.
VisibleVersions(j, k) ==
    {v \in 0..MaxTxn :
        /\ HasVersion(k, v)
        /\ v \notin txns[j].active
        /\ IF txns[j].readonly THEN v < txns[j].version ELSE v <= txns[j].version}

MaxOf(S) == CHOOSE x \in S : \A y \in S : y <= x

\* C15: get(k) returns the payload of the record Version(k, v) with the
\* greatest visible v (a tombstone gives absent), and absent when no version
\* is visible.
C15_GetRule ==
    last.op = "get"
        => IF VisibleVersions(last.txn, last.key) = {} THEN last.val = None
           ELSE last.val =
                  engine[KVersion(last.key, MaxOf(VisibleVersions(last.txn, last.key)))]

\* A get that skips a greater, invisible version and returns an older value.
C15_Witness ==
    /\ last.op = "get"
    /\ last.val # None
    /\ \E v \in 1..MaxTxn :
          /\ HasVersion(last.key, v)
          /\ v > last.src
          /\ v \notin VisibleVersions(last.txn, last.key)

\* A key-directory entry points at an existing file that holds a record of
\* the key at the entry's offset.
PointsAtRecord(fs, kd, k) ==
    /\ kd[k][1] \in DOMAIN fs
    /\ \E i \in 1..Len(fs[kd[k][1]]) :
          /\ OffsetOf(fs[kd[k][1]], i) = kd[k][2]
          /\ fs[kd[k][1]][i].key = k

\* C16: after the active segment is rolled over every key-directory entry
\* points at an existing file that holds the record, and every key reads back
\* what it read before the rollover.
C16_RolloverPreservesData ==
    blast.op = "refresh"
        => /\ \A k \in DOMAIN keydir : PointsAtRecord(files, keydir, k)
           /\ before = GetAll(files, keydir, log)

\* C17: compaction leaves what get returns for every key as it was, and the
\* garbage size that status reports right after a compaction is zero.
C17_CompactionPreserves ==
    (blast.op = "compact" /\ blast.res.kind = "ok")
        => /\ before = GetAll(files, keydir, log)
           /\ \A g \in Misreads :
                 /\ Status(files, keydir, g).res.kind = "ok"
                 /\ Status(files, keydir, g).res.val[1].garbage_size = 0

\* C18: in every state of the storage directory at most one file carries the
\* _active suffix.
C18_OneActiveSegment ==
    Cardinality({fid \in DOMAIN files : fid[2] = "_active"}) <= 1

RECURSIVE LivePairs(_)
\* The keys of a set that have a value, in ascending byte order, each with
\* the value last set.
LivePairs(ks) ==
    IF ks = {} THEN <<>>
    ELSE (IF latest[MinKey(ks)] = None THEN <<>>
          ELSE <<(<<MinKey(ks), latest[MinKey(ks)][1]>>)>>)
           \o LivePairs(ks \ {MinKey(ks)})

\* C20: scan(range) yields exactly the live keys inside the range, each once,
\* in ascending byte order, each with its most recent value; deleted keys do
\* not appear.
C20_EngineScan ==
    blast.op = "scan"
        => blast.res = Ok(LivePairs(InRange(BKeys, blast.key[1], blast.key[2])))

\* C20 for the runs without a compaction, an empty value or a value that is
\* not UTF-8.
PlainEngineScan ==
    (blast.op = "scan" /\ hazards = {})
        => blast.res = Ok(LivePairs(InRange(BKeys, blast.key[1], blast.key[2])))

\* The record a key points at no longer matches its stored check value.
PointsAtFlipped(k) ==
    /\ k \in DOMAIN keydir
    /\ keydir[k][1] \in DOMAIN files
    /\ \E i \in 1..Len(files[keydir[k][1]]) :
          /\ OffsetOf(files[keydir[k][1]], i) = keydir[k][2]
          /\ ~check_crc(files[keydir[k][1]][i])

\* C19: when a byte of the post-CRC region of the record a key points at has
\* been flipped on disk, get of that key returns the InvalidData error, never
\* a value and never absent.
C19_CrcDetection ==
    (blast.op = "get" /\ PointsAtFlipped(blast.key))
        => blast.res.kind = "InvalidData"

\* The part of C19 that the store does keep: get of such a key returns no
\* value.
FlippedGivesNoValue ==
    (blast.op = "get" /\ PointsAtFlipped(blast.key))
        => ~(blast.res.kind = "ok" /\ blast.res.val # None)

\* C21: while a store has the directory open, a second attempt to open it
\* fails with the Lock error, so two instances never have it open at once.
C21_DirectoryExclusivity ==
    blast.op = "open" => blast.res.kind = "Lock"

\* The part of C21 about exclusion: the second attempt never succeeds.
SecondOpenRefused ==
    blast.op = "open" => blast.res.kind # "ok"

\* The records of the transactional keyspace: every record but the
\* Unversioned ones.
TxnRecords(e) == [k \in {x \in DOMAIN e : x[1] # 5} |-> e[k]]

\* What every transaction's get of every key returns on an engine.
TxnGets(e) == [t \in Txns |-> [k \in Keys |-> GetResult(StateOf(txns[t]), e, k)]]

\* What get_unversioned returns for every byte string on an engine.
UnversionedGets(e) == [key \in RawKeys |-> EngineGet(e, key)]

\* C22: no set_unversioned changes the result of any transaction's get, the
\* NextVersion record or any Active, Snapshot, ActiveWrite or Version record,
\* and no transactional operation changes the result of get_unversioned.
C22_UnversionedIndependent ==
    [][/\ last'.op = "set_unversioned"
            => (TxnRecords(engine') = TxnRecords(engine)
                /\ TxnGets(engine') = TxnGets(engine))
       /\ last'.op \notin {"set_unversioned", "get_unversioned"}
            => UnversionedGets(engine') = UnversionedGets(engine)]_vars

\* C22 for the byte strings that are the encoding of a Key::Unversioned.
UnversionedDisjoint ==
    [][/\ (last'.op = "set_unversioned" /\ last'.key[1] = 5)
            => (TxnRecords(engine') = TxnRecords(engine)
                /\ TxnGets(engine') = TxnGets(engine))
       /\ last'.op \notin {"set_unversioned", "get_unversioned"}
            => \A k \in Keys : EngineGet(engine', KUnversioned(k))
                                  = EngineGet(engine, KUnversioned(k))]_vars

\* The values whose encoding involves a tuple variant with fields.
HasTupleVariant(in) ==
    in.ty.k = "enum" /\ \E x \in {in.va, in.vb} :
        in.ty.of[x[1] + 1].k = "tuple_variant" /\ in.ty.of[x[1] + 1].of # <<>>

\* C23: for two values a, b of one supported type, a < b if and only if
\* encode(a) < encode(b) in lexicographic byte order.
C23_CodecMonotonicity ==
    codec.op = "encode"
        => /\ codec.ea.kind = "ok"
           /\ codec.eb.kind = "ok"
           /\ ValueLess(codec.in.ty, codec.in.va, codec.in.vb)
                 <=> LessFrom(codec.ea.val, codec.eb.val, 1)

\* C23 for the values that are not tuple variants with fields.
MonotoneWithoutTupleVariants ==
    (codec.op = "encode" /\ ~HasTupleVariant(codec.in))
        => /\ codec.ea.kind = "ok"
           /\ codec.eb.kind = "ok"
           /\ ValueLess(codec.in.ty, codec.in.va, codec.in.vb)
                 <=> LessFrom(codec.ea.val, codec.eb.val, 1)

\* The types both directions of the codec are implemented for: bool, i64,
\* byte strings, tuples of them, and the unit and newtype variants of them.
Implemented(in) ==
    \/ in.ty.k \in {"bool", "bytes", "tuple"}
    \/ in.ty.k = "int" /\ in.ty.name = "i64"
    \/ in.ty.k = "enum" /\ in.va[1] \in {0, 5}

\* C24: decode(encode(x)) = x for every value x of the key codec, and
\* decoding consumes exactly the bytes that encoding produced.
C24_CodecRoundTrip ==
    codec.op = "round_trip"
        => /\ codec.ea.kind = "ok"
           /\ codec.da.kind = "ok"
           /\ codec.da.val = codec.in.va
           /\ codec.da.rest = <<>>

\* C24 for the types both directions are implemented for.
RoundTripWhereImplemented ==
    (codec.op = "round_trip" /\ Implemented(codec.in))
        => /\ codec.ea.kind = "ok"
           /\ codec.da.kind = "ok"
           /\ codec.da.val = codec.in.va
           /\ codec.da.rest = <<>>

\* Outside those types no value comes back from a round trip.
NoRoundTripElsewhere ==
    (codec.op = "round_trip" /\ ~Implemented(codec.in)) => codec.da.kind # "ok"

\* The versions that have an Active record in the engine.
ActiveRecords(e) == {k[2] : k \in {x \in DOMAIN e : x[1] = 1}}

\* The Snapshot records of the engine.
SnapshotRecords(e) == {k \in DOMAIN e : k[1] = 2}

\* What begin() returning the transaction s leaves in the engine e2, the
\* engine having been e1 when it scanned.
BeginRecords(e1, e2, s) ==
    /\ s.active = ActiveRecords(e1)
    /\ s.version \notin s.active
    /\ \A u \in s.active : u < s.version
    /\ EngineHas(e2, KSnapshot(s.version)) <=> s.active # {}
    /\ s.active # {} => e2[KSnapshot(s.version)] = s.active
    /\ EngineHas(e2, KActive(s.version))

C26_CompactionInterruptSafe ==
    [][/\ blast'.op = "compact_kill"
            => \A fid \in DOMAIN files :
                   fid \in DOMAIN files' /\ files'[fid] = files[fid]
       /\ (blast.op = "compact_kill" /\ blast'.op = "restart")
            => before = GetAll(files', keydir', log')]_vars

\* C26 for the runs without an earlier completed compaction or an empty
\* value.
PlainCompactionInterruptSafe ==
    [][/\ blast'.op = "compact_kill"
            => \A fid \in DOMAIN files :
                   fid \in DOMAIN files' /\ files'[fid] = files[fid]
       /\ (blast.op = "compact_kill" /\ blast'.op = "restart"
               /\ hazards \subseteq {"binary"})
            => before = GetAll(files', keydir', log')]_vars

\* A directory reopened after a kill that left some but not all keys copied.
CompactionKillReopened ==
    /\ blast.op = "restart"
    /\ \E fid \in DOMAIN files :
          /\ files[fid] # <<>>
          /\ {files[fid][i].key : i \in 1..Len(files[fid])} # DOMAIN keydir
          /\ \E old \in DOMAIN files :
                old[1] < fid[1] /\ files[old] # <<>>
                    /\ files[fid][1] \in {files[old][i] : i \in 1..Len(files[old])}

\* compaction_threshold of the configuration, in tenths.
CompactionThresholdTenths == 6

\* The garbage ratio of a status exceeds compaction_threshold.
GarbageExceeds(st) ==
    /\ st.kind = "ok"
    /\ 10 * st.val[1].garbage_size > CompactionThresholdTenths * st.val[1].total_size

\* What a compaction does to the active file lg: it is removed.
CompactedAway(fs1, fs2, lg) == lg \notin DOMAIN fs2 /\ strip_suffix(lg) \notin DOMAIN fs2

\* What a rollover does to the active file lg: it loses its suffix.
RolledOver(fs1, fs2, lg) ==
    /\ lg \notin DOMAIN fs2
    /\ strip_suffix(lg) \in DOMAIN fs2
    /\ fs2[strip_suffix(lg)] = fs1[lg]

\* C27: a set or delete that finds the active segment at or above the size
\* limit compacts when the garbage ratio exceeds compaction_threshold and
\* otherwise rolls over, exactly one of the two, before it appends, so the
\* record is not appended to the segment that was at the limit.
C27_FullSegmentPolicy ==
    [][(blast'.op \in {"set", "delete"} /\ blast'.res.kind = "ok"
            /\ check_size_limit(files[log]))
         => /\ ~(log \in DOMAIN files' /\ Len(files'[log]) > Len(files[log]))
            /\ CompactedAway(files, files', log) # RolledOver(files, files', log)
            /\ CompactedAway(files, files', log)
                  <=> \E g \in Misreads : GarbageExceeds(Status(files, keydir, g).res)]_vars

\* What the code does at the limit: a key the key directory does not hold
\* starts a compaction whatever the garbage ratio, never a rollover.
FullSegmentNewKeyCompacts ==
    [][(blast'.op \in {"set", "delete"} /\ blast'.res.kind = "ok"
            /\ check_size_limit(files[log]) /\ blast'.key \notin DOMAIN keydir)
         => /\ CompactedAway(files, files', log)
            /\ ~RolledOver(files, files', log)
            /\ log' # log]_vars

\* What the code does at the limit: a key the key directory holds is
\* appended to the file its entry names, the full active file included.
FullSegmentOldKeyAppends ==
    [][(blast'.op \in {"set", "delete"} /\ blast'.res.kind = "ok"
            /\ check_size_limit(files[log]) /\ blast'.key \in DOMAIN keydir)
         => /\ log' = log
            /\ Len(files'[keydir[blast'.key][1]]) =
                  (IF keydir[blast'.key][1] \in DOMAIN files
                   THEN Len(files[keydir[blast'.key][1]]) ELSE 0) + 1]_vars

\* C28: opening a directory whose last segment ends in a partially written
\* record terminates, and leaves the key directory holding exactly the
\* effect of the complete records before it.
C28_TruncatedTail ==
    [][blast'.op = "open_torn"
         => /\ blast'.res.kind = "ok"
            /\ \E tie \in Suffixes :
                  keydir' = ReplayAll(<<>>, files, DOMAIN files, tie)]_vars

\* What the code does with a record cut before the end of its key: the
\* replay never ends.
TornHeaderHangs ==
    [][(blast'.op = "open_torn" /\ blast'.key[3] < 20 + Len(blast'.key[1]))
         => blast'.res = Hung]_vars

\* What the code does with a record cut inside its value: the replay ends
\* and the key directory points at the partial record.
TornValueIndexed ==
    [][(blast'.op = "open_torn" /\ blast'.key[3] >= 20 + Len(blast'.key[1]))
         => /\ blast'.res.kind = "ok"
            /\ keydir'[blast'.key[1]] = <<log, FileLen(files[log])>>]_vars

\* A set or delete of key appended its record at the end of the active
\* segment lg2 and wrote nothing else: without a compaction the active
\* segment grew by exactly that record, every other file that is still
\* there is as it was, and the only file that appeared is the new active one.
AppendedToActive(fs1, fs2, lg1, lg2, key) ==
    /\ fs2[lg2] # <<>>
    /\ fs2[lg2][Len(fs2[lg2])].key = key
    /\ lg2 = lg1 => fs2[lg1] = Append(fs1[lg1], fs2[lg2][Len(fs2[lg2])])
    /\ \A fid \in (DOMAIN fs1 \cap DOMAIN fs2) \ {lg2} : fs2[fid] = fs1[fid]
    /\ \A fid \in DOMAIN fs2 \ DOMAIN fs1 : fid \in {lg2, strip_suffix(lg1)}

\* C29: every set or delete appends exactly one record at the end of the
\* current active segment and leaves the records written before unchanged;
\* a segment that is not the active one is never written to again.
C29_AppendOnly ==
    [][(blast'.op \in {"set", "delete"} /\ blast'.res.kind = "ok")
         => AppendedToActive(files, files', log, log', blast'.key)]_vars

\* C29 for the keys the key directory does not hold or holds in the active
\* segment.
AppendOnlyInActive ==
    [][(blast'.op \in {"set", "delete"} /\ blast'.res.kind = "ok"
            /\ (blast'.key \in DOMAIN keydir => keydir[blast'.key][1] = log))
         => AppendedToActive(files, files', log, log', blast'.key)]_vars

\* What the code does for a key the key directory holds in another file:
\* the record goes to that file and the active segment is left alone.
AppendToKeydirFile ==
    [][(blast'.op \in {"set", "delete"} /\ blast'.res.kind = "ok"
            /\ blast'.key \in DOMAIN keydir /\ keydir[blast'.key][1] # log)
         => /\ files'[log] = files[log]
            /\ files'[keydir[blast'.key][1]] # <<>>
            /\ log' = log]_vars

\* The record the key directory names for a key.
RecordOf(fs, kd, key) == EntryAt(fs[kd[key][1]], kd[key][2])

\* C30: a set with an empty value writes a record with value_sz = 0, keeps
\* the key in the key directory, makes get return the empty value and scan
\* include the key, and the key is live after the directory is reopened.
C30_EmptyValueIsLive ==
    [][(blast'.op = "set" /\ blast'.res.kind = "ok"
            /\ latest'[blast'.key] = Some(<<>>))
         => /\ blast'.key \in DOMAIN keydir'
            /\ RecordOf(files', keydir', blast'.key).value_sz = 0
            /\ \A g \in Misreads :
                  /\ BitCaskGet(files', keydir', log', blast'.key, g).res = Ok(Some(<<>>))
                  /\ BitCaskScan(files', keydir', log', blast'.key, blast'.key, g).res
                        = Ok(<<<<blast'.key, <<>>>>>>)
            /\ \A tie \in Suffixes :
                  blast'.key \in DOMAIN ReplayAll(<<>>, files', DOMAIN files', tie)]_vars

\* What the code does: the record of a set with an empty value is a
\* tombstone (value_sz = -1) that the key directory points at, so get and
\* scan of the key panic; and with no compaction before, the replay drops
\* the key.
EmptyValueIsTombstone ==
    [][(blast'.op = "set" /\ blast'.res.kind = "ok"
            /\ latest'[blast'.key] = Some(<<>>))
         => /\ blast'.key \in DOMAIN keydir'
            /\ RecordOf(files', keydir', blast'.key).value_sz = -1
            /\ \A g \in Misreads :
                  /\ BitCaskGet(files', keydir', log', blast'.key, g).res = Panic
                  /\ BitCaskScan(files', keydir', log', blast'.key, blast'.key, g).res
                        = Panic
            /\ "compact" \notin hazards'
                  => \A tie \in Suffixes :
                        blast'.key \notin DOMAIN ReplayAll(<<>>, files', DOMAIN files', tie)]_vars

\* The records of all files.
Records(fs) == UNION {{fs[fid][i] : i \in 1..Len(fs[fid])} : fid \in DOMAIN fs}

\* C31: set or delete with a zero-length key returns an error and appends
\* no record, so every record on disk has ksz >= 1.
C31_EmptyKeyRejected ==
    [][/\ (blast'.op \in {"set", "delete"} /\ blast'.key = <<>>)
            => blast'.res.kind # "ok" /\ files' = files
       /\ \A r \in Records(files') : Len(r.key) >= 1]_vars

\* What the code does: set and delete take the zero-length key like any
\* other; unless a compaction is started, they return Ok and append a record
\* with ksz = 0.
EmptyKeyAccepted ==
    [][(blast'.op \in {"set", "delete"} /\ blast'.key = <<>>
            /\ "compact" \notin hazards')
         => /\ blast'.res.kind = "ok"
            /\ \E fid \in DOMAIN files' :
                  /\ files'[fid] # <<>>
                  /\ files'[fid][Len(files'[fid])].key = <<>>
                  /\ Len(files'[fid]) > (IF fid \in DOMAIN files THEN Len(files[fid]) ELSE 0)]_vars

\* C32: resume(state) returns a transaction with exactly the supplied
\* version, read-only flag and active set; for a read/write state it fails
\* when no Active(state.version) record exists, and a read-only state is
\* not checked.
C32_Resume ==
    last.op = "resume"
        => IF ~last.key.readonly /\ KActive(last.key.version) \notin DOMAIN engine
           THEN last.val = None /\ last.err # NoErr
           ELSE last.val = Some(last.key) /\ last.err = NoErr

\* A read/write state resumed with an active set that is not what a scan of
\* the Active records gives.
C32_Witness ==
    /\ last.op = "resume"
    /\ ~last.key.readonly
    /\ last.val = Some(last.key)
    /\ last.key.active # {k[2] : k \in {x \in DOMAIN engine : x[1] = 1}} \ {last.key.version}

C34_EveryOperationReturns == mutex # "relocked"

\* Only rollback of a read/write transaction locks the mutex it holds.
OnlyRollbackRelocks ==
    [][(mutex # "relocked" /\ mutex' = "relocked")
           => /\ last'.op = "rollback"
              /\ ~txns[last'.txn].readonly]_vars

\* The read/write transactions in flight at a restart.
Killed == {v \in RW : txns[v].status = "killed"}

\* The transactions begun, without a target, after transaction v was killed.
BegunAfterKill(v) ==
    {t \in Txns : t > v /\ txns[t].status # "killed" /\ txns[t].target = NoTarget}

\* C35: uncommitted writes stay invisible across a restart.  The Active and
\* ActiveWrite markers of a read/write transaction V in flight when the store
\* is closed or killed are still present after the directory is reopened, V
\* is in the active set of every transaction begun after the restart, and
\* none of them reads a write of V.
C35_InvisibleAcrossRestart ==
    \A v \in Killed :
        /\ EngineHas(engine, KActive(txns[v].version))
        /\ \A k \in Keys : txns[v].own[k] # Unwritten
               => EngineHas(engine, KActiveWrite(txns[v].version, k))
        /\ \A t \in BegunAfterKill(v) :
              /\ txns[v].version \in txns[t].active
              /\ (last.op = "get" /\ last.txn = t) => last.src # txns[v].version

\* What the restart does: no Active and no ActiveWrite record is left, and
\* every other record is as it was.
RestartDropsMarkers ==
    [][last'.op = "restart"
          => /\ \A k \in DOMAIN engine' : k[1] \notin {1, 3}
             /\ \A k \in DOMAIN engine : k[1] \notin {1, 3}
                    => (k \in DOMAIN engine' /\ engine'[k] = engine[k])]_vars

\* The record a key-directory entry names is the last record of its key in
\* the file it lies in.
LastOfKeyInFile(fs, kd, k) ==
    \A i \in 1..Len(fs[kd[k][1]]) :
        fs[kd[k][1]][i].key = k => OffsetOf(fs[kd[k][1]], i) <= kd[k][2]

\* C36: key-directory validity.  In every state of the running store, after
\* open and after any set, delete, rollover or compaction, every entry of the
\* key directory names a file that exists in the directory, and the record at
\* its offset carries the entry's key and is the most recently written record
\* of that key.
C36_KeydirValidity ==
    proc = "running"
        => \A k \in DOMAIN keydir :
              /\ PointsAtRecord(files, keydir, k)
              /\ LastOfKeyInFile(files, keydir, k)

\* C36 holds as long as no compaction and no rollover has run.
KeydirValidUntilMaintenance ==
    (proc = "running" /\ hazards \cap {"compact", "rollover"} = {})
        => \A k \in DOMAIN keydir :
              /\ PointsAtRecord(files, keydir, k)
              /\ LastOfKeyInFile(files, keydir, k)

\* A set or delete that returns an error leaves every engine record and the
\* transaction as they were.
FailedWriteFrame ==
    [][(last'.op = "write" /\ last'.err # NoErr)
          => /\ engine' = engine
             /\ txns'[last'.txn].status = txns[last'.txn].status
             /\ txns'[last'.txn].own = txns[last'.txn].own]_vars

\* A read/write transaction with a failed write still commits, with exactly
\* the writes that succeeded.
CommitAfterFailedWrite ==
    [][(last'.op = "commit" /\ txns[last'.txn].rejected # {})
          => /\ ~EngineHas(engine', KActive(txns[last'.txn].version))
             /\ \A k \in Keys :
                   /\ ~EngineHas(engine', KActiveWrite(txns[last'.txn].version, k))
                   /\ EngineHas(engine', KVersion(k, txns[last'.txn].version))
                          <=> txns[last'.txn].own[k] # Unwritten]_vars

\* C37: a failed write changes nothing.  When set or delete returns an error
\* (write conflict or read-only transaction) no ActiveWrite and no Version
\* record is written and every engine record is as before the call, and the
\* transaction can afterwards be committed, or rolled back, with only its
\* earlier writes.
C37_FailedWriteChangesNothing ==
    [][/\ (last'.op = "write" /\ last'.err # NoErr) => engine' = engine
       /\ (last'.op = "rollback" /\ txns[last'.txn].rejected # {})
              => /\ mutex' # "relocked"
                 /\ txns'[last'.txn].status = "rolledback"]_vars

VersionsBelowNext(e, ts) ==
    /\ \A t \in DOMAIN ts :
          IF ts[t].readonly
          THEN ts[t].target = NoTarget => ts[t].version <= NextVersionOf(e)
          ELSE ts[t].version < NextVersionOf(e)
    /\ \A x \in DOMAIN e :
          /\ x[1] \in {1, 2, 3} => x[2] < NextVersionOf(e)
          /\ x[1] = 4 => x[3] < NextVersionOf(e)

\* C40: NextVersion bounds all versions.  The stored NextVersion never
\* decreases, it is strictly greater than the version of every read/write
\* transaction ever begun and than every version in an Active, Snapshot,
\* ActiveWrite or Version record, and the version of a read-only transaction
\* begun without a target is never greater than it.
C40_NextVersionBounds ==
    [][/\ NextVersionOf(engine') >= NextVersionOf(engine)
       /\ VersionsBelowNext(engine', txns')]_vars

\* C40 for the calls other than set_unversioned with a byte string that is
\* not the encoding of a Key::Unversioned.
NextVersionBoundsTransactions ==
    [][(VersionsBelowNext(engine, txns)
            /\ ~(last'.op = "set_unversioned" /\ last'.key[1] # 5))
          => /\ NextVersionOf(engine') >= NextVersionOf(engine)
             /\ VersionsBelowNext(engine', txns')]_vars

====
